---- MODULE Spec2Model ----
(***************************************************************************)
(* A model of the ATT&CK dataset cache of vscode-attack: the version       *)
(* registry client (getVersions), the dataset fetcher (downloadAttackMap,  *)
(* downloadLatestAttackMap), the cache resolver (getLatestCacheVersion,    *)
(* extractAttackVersion, versionSorter), the freshness orchestrator        *)
(* (cacheData) and the start-up of the extension (activate).               *)
(*                                                                         *)
(* Strings are modelled as sequences of atoms.  An atom is a maximal run   *)
(* of decimal digits ("11"), a punctuation character (".") or a run of     *)
(* letters ("json"); "enterprise-attack.11.0.json" is                      *)
(* <<"enterprise-attack", ".", "11", ".", "0", ".", "json">>.              *)
(***************************************************************************)
EXTENDS Integers, Sequences, FiniteSets, TLC

\* ------------------------------------------------------------------------
\* Bounds of the model
\* ------------------------------------------------------------------------

\* how many operations (activate, cacheData, ...) the host starts in one run
MaxCalls == 2

\* ------------------------------------------------------------------------
\* Strings as atom sequences
\* ------------------------------------------------------------------------

\* the value of a run of digits
NumVal == [a \in {"0", "1", "2", "7", "9", "11", "12"} |->
             CASE a = "0" -> 0 [] a = "1" -> 1 [] a = "2" -> 2 [] a = "7" -> 7
               [] a = "9" -> 9 [] a = "11" -> 11 [] a = "12" -> 12]

IsNum(a) == a \in DOMAIN NumVal

\* punctuation atoms, in collation order
PunctRank == [a \in {"-", "."} |-> IF a = "-" THEN 0 ELSE 1]

IsPunct(a) == a \in DOMAIN PunctRank

\* letter atoms, in alphabetical order
LetterRank == [a \in {"ATT&CK-v", "beta", "CAPEC-v", "enterprise-attack", "json",
                      "notes", "refs/tags/", "subtechniques", "ThisDoesNotExist", "txt",
                      "undefined"} |->
                 CASE a = "ATT&CK-v" -> 0 [] a = "beta" -> 1 [] a = "CAPEC-v" -> 2
                   [] a = "enterprise-attack" -> 3 [] a = "json" -> 4 [] a = "notes" -> 5
                   [] a = "refs/tags/" -> 6 [] a = "subtechniques" -> 7
                   [] a = "ThisDoesNotExist" -> 8 [] a = "txt" -> 9 [] a = "undefined" -> 10]

\* the first character of a run of digits, for a comparison by characters
FirstDigit == [a \in DOMAIN NumVal |-> IF a \in {"11", "12"} THEN 1 ELSE NumVal[a]]

\* the collation class of an atom: punctuation < digits < letters
AtomClass(a) == IF IsPunct(a) THEN 0 ELSE IF IsNum(a) THEN 1 ELSE 2

Sign(n) == IF n < 0 THEN -1 ELSE IF n > 0 THEN 1 ELSE 0

\* two atoms compared character by character: "11" < "9"
CompareAtomLexical(a, b) ==
    IF AtomClass(a) # AtomClass(b) THEN Sign(AtomClass(a) - AtomClass(b))
    ELSE IF IsPunct(a) THEN Sign(PunctRank[a] - PunctRank[b])
    ELSE IF IsNum(a)
         THEN IF FirstDigit[a] # FirstDigit[b] THEN Sign(FirstDigit[a] - FirstDigit[b])
              ELSE Sign(NumVal[a] - NumVal[b])
    ELSE Sign(LetterRank[a] - LetterRank[b])

\* two atoms compared with numeric collation: digit runs by value
CompareAtomNumeric(a, b) ==
    IF AtomClass(a) # AtomClass(b) THEN Sign(AtomClass(a) - AtomClass(b))
    ELSE IF IsPunct(a) THEN Sign(PunctRank[a] - PunctRank[b])
    ELSE IF IsNum(a) THEN Sign(NumVal[a] - NumVal[b])
    ELSE Sign(LetterRank[a] - LetterRank[b])

RECURSIVE CompareFrom(_, _, _, _)
CompareFrom(a, b, i, numeric) ==
    IF i > Len(a) /\ i > Len(b) THEN 0
    ELSE IF i > Len(a) THEN -1
    ELSE IF i > Len(b) THEN 1
    ELSE LET c == IF numeric THEN CompareAtomNumeric(a[i], b[i])
                  ELSE CompareAtomLexical(a[i], b[i])
         IN  IF c # 0 THEN c ELSE CompareFrom(a, b, i + 1, numeric)

\* a.localeCompare(b) without the numeric option
lexicalSorter(a, b) == CompareFrom(a, b, 1, FALSE)

\* a.localeCompare(b, undefined, {numeric: true})
versionSorter(a, b) == CompareFrom(a, b, 1, TRUE)

\* Array.prototype.sort(versionSorter): a stable insertion sort
RECURSIVE Insert(_, _)
Insert(s, x) ==
    IF s = <<>> THEN <<x>>
    ELSE IF versionSorter(x, s[Len(s)]) >= 0 THEN Append(s, x)
    ELSE Append(Insert(SubSeq(s, 1, Len(s) - 1), x), s[Len(s)])

RECURSIVE SortVersions(_)
SortVersions(s) ==
    IF s = <<>> THEN <<>>
    ELSE Insert(SortVersions(SubSeq(s, 1, Len(s) - 1)), s[Len(s)])

\* whether pat occurs in s at position i
OccursAt(s, pat, i) ==
    /\ i >= 1
    /\ i + Len(pat) - 1 <= Len(s)
    /\ \A k \in 1..Len(pat) : s[i + k - 1] = pat[k]

StartsWith(s, pat) == OccursAt(s, pat, 1)

\* String.prototype.replace(pat, rep) with a string pattern: the first occurrence
ReplaceFirst(s, pat, rep) ==
    LET hits == {i \in 1..Len(s) : OccursAt(s, pat, i)}
    IN  IF hits = {} \/ pat = <<>> THEN (IF pat = <<>> THEN rep \o s ELSE s)
        ELSE LET i == CHOOSE h \in hits : \A g \in hits : h <= g
             IN  SubSeq(s, 1, i - 1) \o rep \o SubSeq(s, i + Len(pat), Len(s))

\* ------------------------------------------------------------------------
\* Version tokens, file names, texts and datasets
\* ------------------------------------------------------------------------

V72 == <<"7", ".", "2">>
V90 == <<"9", ".", "0">>
V110 == <<"11", ".", "0">>

\* the text of `${undefined}`
UndefinedText == <<"undefined">>

\* `enterprise-attack.${version}.json`
DatasetFileName(version) == <<"enterprise-attack", ".">> \o version \o <<".", "json">>

\* The text of a file or of an HTTP body: a dataset in JSON, something that is
\* not JSON (an error page), or the empty string.  org tells a dataset that was
\* put in the cache before the run ("seed") from one served by the network.
JsonText(version, org) == [kind |-> "json", ver |-> version, org |-> org]
GarbageText == [kind |-> "garbage", ver |-> <<>>, org |-> "none"]
EmptyText == [kind |-> "empty", ver |-> <<>>, org |-> "none"]

\* JSON.parse(text) as AttackMap: the dataset, or a SyntaxError
JSONparse(text) ==
    IF text.kind = "json"
    THEN [ok |-> TRUE, map |-> [ver |-> text.ver, org |-> text.org]]
    ELSE [ok |-> FALSE, map |-> [ver |-> <<>>, org |-> "none"]]

\* an entry of the cache directory
File(name, text, mtime) == [name |-> name, type |-> "file", text |-> text, mtime |-> mtime]
Directory(name) == [name |-> name, type |-> "dir", text |-> EmptyText, mtime |-> 0]

\* ------------------------------------------------------------------------
\* Cache resolver
\* ------------------------------------------------------------------------

\* name.match(/enterprise-attack\.[0-9\.]+\.json/): the pattern is not anchored
MatchesPattern(name) ==
    \E i \in 1..Len(name) : \E j \in 1..Len(name) :
        /\ OccursAt(name, <<"enterprise-attack", ".">>, i)
        /\ j >= i + 3
        /\ \A k \in (i + 2)..(j - 1) : IsNum(name[k]) \/ name[k] = "."
        /\ OccursAt(name, <<".", "json">>, j)

\* Utils.basename(fileUri).replace('enterprise-attack.', '').replace('.json', '')
extractAttackVersion(name) ==
    ReplaceFirst(ReplaceFirst(name, <<"enterprise-attack", ".">>, <<>>), <<".", "json">>, <<>>)

RECURSIVE SetToSeq(_)
SetToSeq(S) ==
    IF S = {} THEN <<>>
    ELSE LET x == CHOOSE y \in S : TRUE IN <<x>> \o SetToSeq(S \ {x})

\* getLatestCacheVersion without its try/catch: a missing directory rejects
getLatestCacheVersion_rejects(exists, dirEntries) ==
    IF ~exists THEN [rejected |-> TRUE, path |-> <<>>]
    ELSE LET names == {e.name : e \in {d \in dirEntries :
                                          d.type = "file" /\ MatchesPattern(d.name)}}
             sortedEntries == SortVersions(SetToSeq(names))
         IN  [rejected |-> FALSE,
              path |-> IF sortedEntries = <<>> THEN <<>>
                       ELSE sortedEntries[Len(sortedEntries)]]

\* The body of getLatestCacheVersion: the outcome of readDirectory (a thrown
\* error when the directory is missing, caught and logged), the entries
\* filtered, sorted and popped.  <<>> stands for undefined.
getLatestCacheVersion(exists, dirEntries) ==
    IF ~exists THEN [rejected |-> FALSE, path |-> <<>>]
    ELSE LET names == {e.name : e \in {d \in dirEntries :
                                          d.type = "file" /\ MatchesPattern(d.name)}}
             sortedEntries == SortVersions(SetToSeq(names))
         IN  [rejected |-> FALSE,
              path |-> IF sortedEntries = <<>> THEN <<>>
                       ELSE sortedEntries[Len(sortedEntries)]]

\* ------------------------------------------------------------------------
\* Version registry client
\* ------------------------------------------------------------------------

TagRef(name) == <<"refs/tags/">> \o name

Includes(s, a) == \E i \in 1..Len(s) : s[i] = a

RECURSIVE FilterSeq(_, _, _)
FilterSeq(s, prefix, ignoreBeta) ==
    IF s = <<>> THEN <<>>
    ELSE LET ref == s[1]
             rest == FilterSeq(SubSeq(s, 2, Len(s)), prefix, ignoreBeta)
             stripped == ReplaceFirst(ref, <<"refs/tags/">> \o prefix, <<>>)
             label == IF stripped = <<>> THEN prefix ELSE stripped
         IN  IF StartsWith(ref, <<"refs/tags/">> \o prefix)
                /\ ~(ignoreBeta /\ Includes(label, "beta"))
             THEN <<label>> \o rest
             ELSE rest

\* The 'end' handler of getVersions on a body: how the promise is settled.
\* body is "tags" (the JSON array of the registry's tags), "object" (a JSON
\* object, such as GitHub's rate-limit message) or "notJSON".
getVersions_end(body, tagRefs, prefix, ignoreBeta) ==
    IF body = "notJSON"
    THEN \* JSON.parse throws inside the handler: neither resolve nor reject runs
         [promise |-> "pending", value |-> <<>>, fault |-> "notJSON"]
    ELSE IF body = "tags" /\ Len(tagRefs) > 0
    THEN [promise |-> "resolved", value |-> FilterSeq(tagRefs, prefix, ignoreBeta),
          fault |-> "none"]
    ELSE [promise |-> "rejected", value |-> <<>>,
          fault |-> IF body = "tags" THEN "emptyArray" ELSE "object"]

\* `${availableVersions.sort(versionSorter)[availableVersions.length - 1]}`
LatestOf(availableVersions) ==
    IF availableVersions = <<>> THEN UndefinedText
    ELSE SortVersions(availableVersions)[Len(availableVersions)]

\* ------------------------------------------------------------------------
\* State
\* ------------------------------------------------------------------------

VARIABLES
    dirExists,  \* whether the cache directory (context.globalStorageUri) exists
    entries,    \* the entries of the cache directory
    clock,      \* the file system's clock: the mtime of the last write
    writes,     \* the vscode.workspace.fs.writeFile calls in flight
    tags,       \* the refs of the registry's tags, as GitHub lists them
    late,       \* the requests that timed out and are still open
    js,         \* the extension host: the running operation, its promises, the UI
    techniques, \* the technique collection the extension holds (the result of init)
    messages,   \* the notifications shown by vscode.window.show...Message
    call,       \* the library function the host called last: its inputs and its result
    settings,   \* the configuration section vscode-attack
    providers,  \* the hover and completion providers: registered, tracked, subscribed
    panel       \* the webview panel of the search results

\* the state of the editor's side of the features: settings, providers, panel
desk == <<settings, providers, panel>>

\* the state of the lookup features, which the cache operations leave alone
lookup == <<techniques, messages, call, desk>>

vars == <<dirExists, entries, clock, writes, tags, late, js, lookup>>

\* no library function has been called
NoCall == [fn |-> "none"]

\* the settings as package.json declares their defaults
DefaultSettings ==
    [applicableFiles |-> <<"markdown", "yaml">>,
     groups |-> FALSE, mitigations |-> FALSE, software |-> FALSE,
     tactics |-> TRUE, techniques |-> TRUE]

\* no provider has been registered: currentProviders holds five empty lists
NoProviders ==
    [current |-> [groups |-> <<>>, mitigations |-> <<>>, software |-> <<>>,
                  tactics |-> <<>>, techniques |-> <<>>],
     registered |-> {}, subscriptions |-> <<>>, generation |-> 0, watching |-> FALSE]

\* no panel has been created
NoPanel == [open |-> FALSE, results |-> <<>>, currentPosition |-> 0, shown |-> 0,
            title |-> <<>>, navigation |-> FALSE]

\* the editor's side before the extension has done anything to it
DeskAtRest ==
    /\ settings = DefaultSettings
    /\ providers = NoProviders
    /\ panel = NoPanel

NoMap == [ver |-> <<>>, org |-> "none"]

NoRequest == [state |-> "none", promise |-> "none", value |-> <<>>, fault |-> "none"]

NoDownload == [state |-> "none", promise |-> "none", version |-> <<>>, fault |-> "none",
               body |-> EmptyText]

\* The fields of js that one operation of the host starts from.  entries0,
\* exists0 and pending0 record the cache directory and the number of writes and
\* open requests left over from earlier operations when the operation starts;
\* q1 the outcome of the operation's first registry query, path the branch
\* cacheData took, requests and started the dataset requests and the writeFile
\* calls the operation has issued.  They are read by the properties only.
Fresh(j, top) ==
    [j EXCEPT !.calls = @ + 1, !.top = top, !.ctx = "none",
              !.cachedPath = <<>>, !.cachedVersion = <<>>, !.onlineVersion = <<>>,
              !.result = [st |-> "none", map |-> NoMap],
              !.damOut = [st |-> "none", text |-> EmptyText],
              !.glcvOut = [st |-> "none", path |-> <<>>],
              !.gv = NoRequest, !.dl = NoDownload, !.shown = {},
              !.entries0 = entries, !.exists0 = dirExists,
              !.pending0 = Len(writes) + Len(late),
              !.q1 = "none", !.path = "none", !.requests = 0, !.started = 0]

\* the cache directories a run starts from
InitialDirs ==
    { [exists |-> FALSE, entries |-> {}],
      [exists |-> TRUE, entries |-> {}],
      [exists |-> TRUE, entries |-> {File(<<"notes", ".", "txt">>, GarbageText, 0)}],
      [exists |-> TRUE, entries |-> {File(DatasetFileName(V72), JsonText(V72, "seed"), 0)}],
      [exists |-> TRUE, entries |-> {File(DatasetFileName(V110), JsonText(V110, "seed"), 0)}],
      [exists |-> TRUE, entries |-> {File(DatasetFileName(V90), JsonText(V90, "seed"), 0),
                                     File(DatasetFileName(V110), JsonText(V110, "seed"), 0)}],
      [exists |-> TRUE, entries |-> {File(DatasetFileName(V72), JsonText(V72, "seed"), 0),
                                     File(<<"enterprise-attack", ".", "json">>, GarbageText, 0),
                                     Directory(DatasetFileName(V110))}] }

\* the tag lists the registry may hold
TagLists ==
    { <<TagRef(<<"ATT&CK-v">> \o V90), TagRef(<<"ATT&CK-v">> \o V110),
        TagRef(<<"ATT&CK-v">> \o V72), TagRef(<<"subtechniques", "-", "beta">>)>>,
      <<TagRef(<<"ATT&CK-v">> \o V72), TagRef(<<"ATT&CK-v">> \o V90),
        TagRef(<<"ATT&CK-v">> \o V110 \o <<"-", "beta">>)>>,
      <<TagRef(<<"CAPEC-v">> \o V72), TagRef(<<"subtechniques", "-", "beta">>)>>,
      <<>> }

Init ==
    /\ \E d \in InitialDirs : dirExists = d.exists /\ entries = d.entries
    /\ clock = 0
    /\ writes = <<>>
    /\ tags \in TagLists
    /\ late = <<>>
    /\ js = [calls |-> 0, top |-> "none", pc |-> "idle", ctx |-> "none",
             activated |-> FALSE, deactivated |-> FALSE, trusted |-> FALSE,
             cachedPath |-> <<>>, cachedVersion |-> <<>>, onlineVersion |-> <<>>,
             result |-> [st |-> "none", map |-> NoMap],
             damOut |-> [st |-> "none", text |-> EmptyText],
             glcvOut |-> [st |-> "none", path |-> <<>>],
             gv |-> NoRequest, dl |-> NoDownload,
             shown |-> {}, registered |-> FALSE, commands |-> {}, api |-> "none",
             statusBar |-> [exists |-> FALSE, version |-> <<>>],
             entries0 |-> {}, exists0 |-> FALSE, pending0 |-> 0,
             q1 |-> "none", path |-> "none", requests |-> 0, started |-> 0]
    /\ techniques = <<>>
    /\ messages = <<>>
    /\ call = NoCall
    /\ DeskAtRest

\* ------------------------------------------------------------------------
\* The continuations of the promises, from the innermost caller outwards
\* ------------------------------------------------------------------------

\* activate, from the return of cacheData to the await in createStatusBar
activate_afterCacheData(j) ==
    IF j.result.st = "thrown"
    THEN [j EXCEPT !.pc = "done", !.api = "rejected"]
    ELSE IF j.result.st = "undefined"
    THEN [j EXCEPT !.pc = "done", !.api = "undefined", !.shown = @ \cup {"restart"}]
    ELSE [j EXCEPT !.pc = "act_status", !.registered = TRUE,
                   !.commands = (IF j.trusted THEN {"vscode-attack.search"} ELSE {})
                                \cup {"vscode-attack.insertLink"}]

\* cacheData returns res (or throws) to whoever called it
cacheData_return(j, res) ==
    LET j1 == [j EXCEPT !.result = res]
    IN  IF j.top = "activate" THEN activate_afterCacheData(j1)
        ELSE [j1 EXCEPT !.pc = "done"]

\* the promise of downloadAttackMap is settled: its caller goes on
downloadAttackMap_settle(j, st, text) ==
    LET j1 == [j EXCEPT !.damOut = [st |-> st, text |-> text]]
        parsed == JSONparse(text)
    IN  CASE j.ctx = "latest" ->
               IF st = "resolved" /\ parsed.ok
               THEN cacheData_return(j1, [st |-> "map", map |-> parsed.map])
               ELSE cacheData_return(j1, [st |-> "undefined", map |-> NoMap])
          [] j.ctx = "update" ->
               IF st = "resolved" /\ parsed.ok
               THEN cacheData_return([j1 EXCEPT !.path = "update"],
                                     [st |-> "map", map |-> parsed.map])
               ELSE [j1 EXCEPT !.pc = "cd_fallback"]
          [] OTHER -> [j1 EXCEPT !.pc = "done"]

\* https.get of the tag list: a new request, awaited at `where`
getVersions(j, where) ==
    [j EXCEPT !.pc = where,
              !.gv = [state |-> "open", promise |-> "pending", value |-> <<>>,
                      fault |-> "none"]]

\* downloadAttackMap(storageUri, version), up to its getVersions().then(...)
downloadAttackMap(j, version, ctx) ==
    getVersions([j EXCEPT !.ctx = ctx, !.dl = [NoDownload EXCEPT !.version = version],
                          !.damOut = [st |-> "pending", text |-> EmptyText]],
                "dam_versions")

\* the then-callback without the includes() test: any version is requested
downloadAttackMap_then_unchecked(j, availableVersions) ==
    [j EXCEPT !.pc = "dam_download", !.requests = @ + 1,
              !.dl = [state |-> "open", promise |-> "pending",
                      version |-> j.dl.version, fault |-> "none",
                      body |-> EmptyText]]

\* the then-callback of downloadAttackMap on the list of versions
downloadAttackMap_then(j, availableVersions) ==
    IF \E i \in 1..Len(availableVersions) : availableVersions[i] = j.dl.version
    THEN [j EXCEPT !.pc = "dam_download", !.requests = @ + 1,
                   !.dl = [state |-> "open", promise |-> "pending",
                           version |-> j.dl.version, fault |-> "none",
                           body |-> EmptyText]]
    ELSE downloadAttackMap_settle(j, "resolved", EmptyText)

\* cacheData comparing with <= 0: an up-to-date cache is downloaded again
cacheData_afterVersions_orEqual(j, out) ==
    IF out.promise = "resolved"
    THEN LET onlineVersion == LatestOf(out.value)
         IN  IF versionSorter(j.cachedVersion, onlineVersion) <= 0
             THEN downloadAttackMap([j EXCEPT !.onlineVersion = onlineVersion,
                                              !.shown = @ \cup {"newVersion"}],
                                    onlineVersion, "update")
             ELSE [j EXCEPT !.onlineVersion = onlineVersion, !.pc = "cd_read"]
    ELSE [j EXCEPT !.pc = "cd_fallback"]

\* cacheData after `await helpers.getVersions()`
cacheData_afterVersions(j, out) ==
    IF out.promise = "resolved"
    THEN LET onlineVersion == LatestOf(out.value)
         IN  IF versionSorter(j.cachedVersion, onlineVersion) < 0
             THEN downloadAttackMap([j EXCEPT !.onlineVersion = onlineVersion,
                                              !.shown = @ \cup {"newVersion"}],
                                    onlineVersion, "update")
             ELSE [j EXCEPT !.onlineVersion = onlineVersion, !.pc = "cd_read"]
    ELSE [j EXCEPT !.pc = "cd_fallback"]

\* downloadLatestAttackMap after `await getVersions()`
downloadLatestAttackMap_afterVersions(j, out) ==
    IF out.promise = "resolved"
    THEN downloadAttackMap(j, LatestOf(out.value), "latest")
    ELSE cacheData_return(j, [st |-> "undefined", map |-> NoMap])

\* The promise of getVersions is settled as `out` says (or left pending) while
\* the request goes to `state`: whoever awaits it goes on.
getVersions_settle(j, out, state) ==
    LET j1 == [j EXCEPT !.gv = [state |-> state, promise |-> out.promise,
                                value |-> out.value, fault |-> out.fault],
                        !.q1 = IF j.pc \in {"cd_versions", "dla_versions"}
                               THEN (IF out.fault = "none" THEN "ok" ELSE out.fault)
                               ELSE @]
    IN  IF out.promise = "pending" THEN j1
        ELSE CASE j.pc = "cd_versions" -> cacheData_afterVersions(j1, out)
               [] j.pc = "dla_versions" -> downloadLatestAttackMap_afterVersions(j1, out)
               [] j.pc = "dam_versions" ->
                    IF out.promise = "resolved"
                    THEN downloadAttackMap_then(j1, out.value)
                    ELSE j1   \* then() was given no rejection handler
               [] OTHER -> j1

\* ------------------------------------------------------------------------
\* Operations the host starts
\* ------------------------------------------------------------------------

Idle == js.pc \in {"idle", "done"} /\ js.calls < MaxCalls

\* the versions a test passes to downloadAttackMap
CallVersions == {V110, <<"ThisDoesNotExist">>}

\* activate(context), up to `await vscode.workspace.fs.createDirectory(storageUri)`
activate ==
    /\ Idle
    /\ ~js.activated
    /\ \E trusted \in BOOLEAN :
         js' = [Fresh(js, "activate") EXCEPT !.pc = "cd_mkdir", !.activated = TRUE,
                                             !.trusted = trusted]
    /\ UNCHANGED <<lookup, dirExists, entries, clock, writes, tags, late>>

\* cacheData(storageUri) called on its own, as the tests do
cacheData ==
    /\ Idle
    /\ js' = [Fresh(js, "cacheData") EXCEPT !.pc = "cd_mkdir"]
    /\ UNCHANGED <<lookup, dirExists, entries, clock, writes, tags, late>>

\* downloadAttackMap(storageUri, version) called on its own
downloadAttackMap_call ==
    /\ Idle
    /\ \E version \in CallVersions :
         js' = downloadAttackMap(Fresh(js, "downloadAttackMap"), version, "direct")
    /\ UNCHANGED <<lookup, dirExists, entries, clock, writes, tags, late>>

\* getLatestCacheVersion(cacheUri) called on its own
getLatestCacheVersion_call ==
    /\ Idle
    /\ js' = [Fresh(js, "getLatestCacheVersion") EXCEPT !.pc = "glcv_list"]
    /\ UNCHANGED <<lookup, dirExists, entries, clock, writes, tags, late>>

\* ------------------------------------------------------------------------
\* File system completions
\* ------------------------------------------------------------------------

\* createDirectory completes: cacheData goes on to getLatestCacheVersion
createDirectory_done ==
    /\ js.pc = "cd_mkdir"
    /\ dirExists' = TRUE
    /\ js' = [js EXCEPT !.pc = "cd_list"]
    /\ UNCHANGED <<lookup, entries, clock, writes, tags, late>>

\* readDirectory completes inside getLatestCacheVersion: its caller goes on
readDirectory_done ==
    /\ js.pc \in {"cd_list", "act_status", "glcv_list"}
    /\ LET r == getLatestCacheVersion(dirExists, entries)
       IN  js' = CASE js.pc = "cd_list" ->
                        IF r.rejected
                        THEN cacheData_return(js, [st |-> "thrown", map |-> NoMap])
                        ELSE IF r.path = <<>>
                        THEN getVersions([js EXCEPT !.path = "fresh"], "dla_versions")
                        ELSE getVersions([js EXCEPT !.cachedPath = r.path,
                                              !.cachedVersion = extractAttackVersion(r.path)],
                                         "cd_versions")
                   [] js.pc = "act_status" ->
                        IF r.rejected THEN [js EXCEPT !.pc = "done", !.api = "rejected"]
                        ELSE [js EXCEPT !.pc = "done", !.api = "api",
                                        !.statusBar =
                                            IF r.path = <<>>
                                            THEN [exists |-> FALSE, version |-> <<>>]
                                            ELSE [exists |-> TRUE,
                                                  version |-> extractAttackVersion(r.path)]]
                   [] OTHER ->
                        [js EXCEPT !.pc = "done",
                                   !.glcvOut = [st |-> IF r.rejected THEN "rejected"
                                                       ELSE "resolved",
                                                path |-> r.path]]
    /\ UNCHANGED <<lookup, dirExists, entries, clock, writes, tags, late>>

\* the text of the file cachedPath names
TextAt(name) == (CHOOSE e \in entries : e.name = name /\ e.type = "file").text

\* readFile(cachedPath) completes: cacheData parses the text
readFile_done ==
    /\ js.pc \in {"cd_read", "cd_fallback"}
    /\ LET parsed == JSONparse(TextAt(js.cachedPath))
       IN  js' = IF parsed.ok
                 THEN cacheData_return(
                          [js EXCEPT !.path = IF js.pc = "cd_read" THEN "reuse"
                                              ELSE "fallback"],
                          [st |-> "map", map |-> parsed.map])
                 ELSE IF js.pc = "cd_read"
                 THEN [js EXCEPT !.pc = "cd_fallback"]
                 ELSE cacheData_return(js, [st |-> "thrown", map |-> NoMap])
    /\ UNCHANGED <<lookup, dirExists, entries, clock, writes, tags, late>>

\* Seq s without its i-th element
Remove(s, i) == SubSeq(s, 1, i - 1) \o SubSeq(s, i + 1, Len(s))

\* a writeFile in flight completes: the file is created or replaced
writeFile_done ==
    \E i \in 1..Len(writes) :
        /\ dirExists' = TRUE
        /\ entries' = {e \in entries : e.name # writes[i].name}
                        \cup {File(writes[i].name, writes[i].text, clock + 1)}
        /\ clock' = clock + 1
        /\ writes' = Remove(writes, i)
        /\ UNCHANGED <<lookup, tags, late, js>>

\* a failed writeFile that rejects the promise of downloadAttackMap
writeFile_failed_rejects ==
    \E i \in 1..Len(writes) :
        /\ writes' = Remove(writes, i)
        /\ js' = [js EXCEPT !.damOut = [st |-> "rejected", text |-> EmptyText]]
        /\ UNCHANGED <<lookup, dirExists, entries, clock, tags, late>>

\* a writeFile in flight fails: the reason is logged
writeFile_failed ==
    \E i \in 1..Len(writes) :
        /\ writes' = Remove(writes, i)
        /\ UNCHANGED <<lookup, dirExists, entries, clock, tags, late, js>>

\* ------------------------------------------------------------------------
\* Network events of getVersions
\* ------------------------------------------------------------------------

\* the response ends: the 'end' handler parses the body
getVersions_onEnd ==
    /\ js.gv.state = "open"
    /\ \E body \in {"tags", "object", "notJSON"} :
         js' = getVersions_settle(js, getVersions_end(body, tags, <<"ATT&CK-v">>, TRUE),
                                  "closed")
    /\ UNCHANGED <<lookup, dirExists, entries, clock, writes, tags, late>>

\* the response stream fails: the 'error' handler rejects and tells the user
getVersions_onResError ==
    /\ js.gv.state = "open"
    /\ js' = getVersions_settle([js EXCEPT !.shown = @ \cup {"versionListError"}],
                                [promise |-> "rejected", value |-> <<>>,
                                 fault |-> "streamError"],
                                "closed")
    /\ UNCHANGED <<lookup, dirExists, entries, clock, writes, tags, late>>

\* the socket is idle for httpTimeout: the promise is rejected, the request stays open
getVersions_onTimeout ==
    /\ js.gv.state = "open"
    /\ js' = getVersions_settle(js, [promise |-> "rejected", value |-> <<>>,
                                     fault |-> "timeout"],
                                "timedout")
    /\ late' = Append(late, [kind |-> "versions", version |-> <<>>])
    /\ UNCHANGED <<lookup, dirExists, entries, clock, writes, tags>>

\* The request fails (no route, refused, DNS): 'error' is emitted on the request,
\* which has no listener for it, so nothing settles the promise.
getVersions_onRequestError ==
    /\ js.gv.state = "open"
    /\ js' = getVersions_settle(js, [promise |-> "pending", value |-> <<>>,
                                     fault |-> "unreachable"],
                                "closed")
    /\ UNCHANGED <<lookup, dirExists, entries, clock, writes, tags, late>>

\* ------------------------------------------------------------------------
\* Network events of the dataset download
\* ------------------------------------------------------------------------

\* the bodies the dataset URL of a version may serve: the status is not looked at
Bodies(version) == {JsonText(version, "net"), GarbageText}

\* the response ends: the body is handed to writeFile and to the caller
downloadAttackMap_onEnd ==
    /\ js.dl.state = "open"
    /\ \E body \in Bodies(js.dl.version) :
         /\ writes' = Append(writes, [name |-> DatasetFileName(js.dl.version),
                                      text |-> body])
         /\ js' = downloadAttackMap_settle(
                      [js EXCEPT !.dl.state = "closed", !.dl.promise = "resolved",
                                 !.dl.body = body, !.started = @ + 1],
                      "resolved", body)
    /\ UNCHANGED <<lookup, dirExists, entries, clock, tags, late>>

\* the response stream fails: the 'error' handler rejects and tells the user
downloadAttackMap_onResError ==
    /\ js.dl.state = "open"
    /\ js' = downloadAttackMap_settle(
                 [js EXCEPT !.dl.state = "closed", !.dl.promise = "rejected",
                            !.dl.fault = "streamError",
                            !.shown = @ \cup {"downloadError"}],
                 "rejected", EmptyText)
    /\ UNCHANGED <<lookup, dirExists, entries, clock, writes, tags, late>>

\* the socket is idle for httpTimeout: the promise is rejected, the request stays open
downloadAttackMap_onTimeout ==
    /\ js.dl.state = "open"
    /\ js' = downloadAttackMap_settle(
                 [js EXCEPT !.dl.state = "timedout", !.dl.promise = "rejected",
                            !.dl.fault = "timeout"],
                 "rejected", EmptyText)
    /\ late' = Append(late, [kind |-> "download", version |-> js.dl.version])
    /\ UNCHANGED <<lookup, dirExists, entries, clock, writes, tags>>

\* the request fails: 'error' on the request has no listener, nothing is settled
downloadAttackMap_onRequestError ==
    /\ js.dl.state = "open"
    /\ js' = [js EXCEPT !.dl.state = "closed", !.dl.fault = "unreachable"]
    /\ UNCHANGED <<lookup, dirExists, entries, clock, writes, tags, late>>

\* ------------------------------------------------------------------------
\* Requests that timed out and are still open
\* ------------------------------------------------------------------------

\* The response of a timed-out request ends after all: its 'end' handler runs.
\* resolve() on the rejected promise does nothing; the download's handler still
\* hands the body to writeFile.
late_onEnd ==
    \E i \in 1..Len(late) :
        /\ late' = Remove(late, i)
        /\ IF late[i].kind = "download"
           THEN \E body \in Bodies(late[i].version) :
                    writes' = Append(writes, [name |-> DatasetFileName(late[i].version),
                                              text |-> body])
           ELSE writes' = writes
        /\ UNCHANGED <<lookup, dirExists, entries, clock, tags, js>>

\* a timed-out request is closed without a response
late_onClose ==
    \E i \in 1..Len(late) :
        /\ late' = Remove(late, i)
        /\ UNCHANGED <<lookup, dirExists, entries, clock, writes, tags, js>>

Next ==
    \/ activate
    \/ cacheData
    \/ downloadAttackMap_call
    \/ getLatestCacheVersion_call
    \/ createDirectory_done
    \/ readDirectory_done
    \/ readFile_done
    \/ writeFile_done
    \/ writeFile_failed
    \/ getVersions_onEnd
    \/ getVersions_onResError
    \/ getVersions_onTimeout
    \/ getVersions_onRequestError
    \/ downloadAttackMap_onEnd
    \/ downloadAttackMap_onResError
    \/ downloadAttackMap_onTimeout
    \/ downloadAttackMap_onRequestError
    \/ late_onEnd
    \/ late_onClose

Spec == Init /\ [][Next]_vars

\* ------------------------------------------------------------------------
\* Properties
\* ------------------------------------------------------------------------

\* cacheData is the running (or last) operation, alone or inside activate
InCacheData == js.top \in {"cacheData", "activate"}

\* what getVersions() resolves with when the registry answers
OnlineVersions == FilterSeq(tags, <<"ATT&CK-v">>, TRUE)

\* the files of a directory listing that match the dataset filename pattern
DatasetFiles(es) == {e \in es : e.type = "file" /\ MatchesPattern(e.name)}

\* the text a file had when the operation started
Text0(name) ==
    IF \E e \in js.entries0 : e.name = name /\ e.type = "file"
    THEN (CHOOSE e \in js.entries0 : e.name = name /\ e.type = "file").text
    ELSE EmptyText

\* a version token as the list of its integers: "11.0" is <<11, 0>>
RECURSIVE Components(_)
Components(token) ==
    IF token = <<>> THEN <<>>
    ELSE IF IsNum(token[1]) THEN <<NumVal[token[1]]>> \o Components(Tail(token))
    ELSE Components(Tail(token))

\* a < b component by component, as integers
RECURSIVE ComponentsLess(_, _)
ComponentsLess(a, b) ==
    IF b = <<>> THEN FALSE
    ELSE IF a = <<>> THEN TRUE
    ELSE IF a[1] # b[1] THEN a[1] < b[1]
    ELSE ComponentsLess(Tail(a), Tail(b))

\* a registry request has ended in a failure
RegistryFailed == js.q1 \notin {"none", "ok"}

\* C1: when the cache holds a dataset and the registry query fails or times
\* out, cacheData falls back to the cache: it goes on to read the newest cached
\* file and completes with its parsed content, neither failing nor undefined.
C1_FallsBackToCache ==
    (/\ InCacheData
     /\ js.cachedPath # <<>>
     /\ js.pending0 = 0
     /\ RegistryFailed
     /\ Text0(js.cachedPath).kind = "json")
    => \/ js.pc = "cd_fallback"
       \/ /\ js.result.st = "map"
          /\ js.result.map = JSONparse(Text0(js.cachedPath)).map

\* C2: for a cache directory that is empty or missing, once cacheData has
\* completed with a dataset the directory holds exactly one dataset file, newly
\* written, named after the latest version getVersions returns.
C2_ExactlyOneNewFile ==
    (/\ InCacheData
     /\ DatasetFiles(js.entries0) = {}
     /\ js.pending0 = 0
     /\ js.result.st = "map")
    => LET ds == DatasetFiles(entries)
       IN  /\ Cardinality(ds) = 1
           /\ \A e \in ds : /\ e.name = DatasetFileName(LatestOf(OnlineVersions))
                            /\ e \notin js.entries0

\* C3: when the registry query succeeds and the newest cached version is equal
\* to or numerically newer than the newest online version, cacheData returns
\* the cached content, requests no dataset and calls no writeFile; the cache
\* directory, modification times included, is as it was when the call started.
C3_ReuseLeavesCacheUntouched ==
    (/\ InCacheData
     /\ js.result.st # "none"
     /\ js.cachedPath # <<>>
     /\ js.q1 = "ok"
     /\ OnlineVersions # <<>>
     /\ ~ComponentsLess(Components(js.cachedVersion),
                        Components(LatestOf(OnlineVersions)))
     /\ Text0(js.cachedPath).kind = "json")
    => /\ js.requests = 0
       /\ js.started = 0
       /\ "newVersion" \notin js.shown
       /\ js.pending0 = 0 =>
             /\ js.result.st = "map"
             /\ js.result.map = JSONparse(Text0(js.cachedPath)).map
             /\ entries = js.entries0
             /\ writes = <<>>

C3_Witness ==
    /\ js.top = "cacheData"
    /\ js.calls = 2
    /\ js.pc = "done"
    /\ js.path = "reuse"
    /\ js.pending0 = 0
    /\ js.result.st = "map"
    /\ js.cachedVersion = V110
    /\ \E e \in entries : e.name = js.cachedPath /\ e.mtime = 0

\* C4: when the registry query succeeds, the newest online version is
\* numerically newer than the newest cached version and the download succeeds,
\* cacheData returns the parsed downloaded content, the downloaded version is
\* persisted in the cache directory and the older cache files are untouched.
C4_UpdatePersistsNewVersion ==
    (/\ InCacheData
     /\ js.cachedPath # <<>>
     /\ js.pending0 = 0
     /\ js.q1 = "ok"
     /\ ComponentsLess(Components(js.cachedVersion), Components(LatestOf(OnlineVersions)))
     /\ js.dl.promise = "resolved"
     /\ js.dl.body.kind = "json")
    => /\ js.result.st = "map"
       /\ js.result.map = JSONparse(js.dl.body).map
       /\ js.result.map.ver = LatestOf(OnlineVersions)
       /\ \E e \in entries : /\ e.name = DatasetFileName(LatestOf(OnlineVersions))
                             /\ e.type = "file"
                             /\ e.text = js.dl.body
       /\ js.entries0 \subseteq entries

\* the registry query or the dataset download of the operation has failed
FetchFailed ==
    \/ js.gv.fault # "none"
    \/ js.dl.fault # "none"
    \/ js.dl.promise = "resolved" /\ js.dl.body.kind # "json"

\* C5: when no dataset is cached and the registry query or the download fails,
\* the failure is surfaced: cacheData yields undefined, activate shows the error
\* advising a restart, registers no provider and no command and returns no API.
C5_FailureIsSurfaced ==
    (/\ js.top = "activate"
     /\ js.path = "fresh"
     /\ FetchFailed)
    => /\ js.pc = "done"
       /\ js.result.st = "undefined"
       /\ "restart" \in js.shown
       /\ ~js.registered
       /\ js.commands = {}
       /\ js.api = "undefined"

\* C6: whenever the tag listing is unreachable, times out or returns a payload
\* that is not the expected tag array, the promise of getVersions is rejected:
\* it is neither resolved nor left pending once the request has failed.
C6_FailureRejects ==
    js.gv.fault # "none" => js.gv.promise = "rejected"

\* C7: downloadAttackMap called with a version that is not in the list
\* getVersions returns resolves with the empty string, requests no dataset and
\* calls no writeFile.
C7_UnknownVersionIsEmpty ==
    (/\ js.ctx # "none"
     /\ js.gv.promise = "resolved"
     /\ ~Includes(js.gv.value, js.dl.version))
    => /\ js.damOut = [st |-> "resolved", text |-> EmptyText]
       /\ js.dl.state = "none"
       /\ js.requests = 0
       /\ js.started = 0

C7_Witness ==
    /\ js.top = "downloadAttackMap"
    /\ js.pc = "done"
    /\ js.dl.version = <<"ThisDoesNotExist">>
    /\ js.gv.promise = "resolved"
    /\ js.gv.value # <<>>
    /\ js.damOut.st = "resolved"

\* C8: when downloadAttackMap has downloaded a body for a known version it
\* resolves with that raw text whatever becomes of the write of the cache
\* file: a failed write rejects nothing and shows no error to the user.
C8_ReturnsTextDespiteWriteFailure ==
    js.dl.promise = "resolved"
    => /\ js.damOut = [st |-> "resolved", text |-> js.dl.body]
       /\ js.dl.body \in Bodies(js.dl.version)
       /\ js.started = 1
       /\ "downloadError" \notin js.shown

\* the write of the downloaded file has failed: it is no longer in flight and
\* the file is not there
C8_Witness ==
    /\ js.top = "downloadAttackMap"
    /\ js.calls = 1
    /\ js.dl.promise = "resolved"
    /\ js.dl.body.kind = "json"
    /\ js.damOut.st = "resolved"
    /\ writes = <<>>
    /\ late = <<>>
    /\ \A e \in entries : e.name # DatasetFileName(js.dl.version)

\* the matching files of a listing whose version no other matching file exceeds
Highest(es) ==
    {e \in DatasetFiles(es) :
        \A d \in DatasetFiles(es) :
            ~ComponentsLess(Components(extractAttackVersion(e.name)),
                            Components(extractAttackVersion(d.name)))}

V112 == <<"1", ".", "12">>
V20 == <<"2", ".", "0">>
V2 == <<"2">>
V201 == <<"2", ".", "0", ".", "1">>

\* the version tokens the helpers are called with
VersionTokens == {V72, V90, V110, V112, V20, V2, V201}

\* the prefixes getVersions is called with
Prefixes == {<<"ATT&CK-v">>, <<"subtechniques", "-", "beta">>, <<"CAPEC-v">>, <<>>}

\* the value of a variable that holds undefined
Undefined == "undefined"

\* the time value of an Invalid Date
NaN == -1

\* new Date(text).valueOf(): the instant a timestamp names, NaN when it names none
DateValue == [t \in {"2020-07-02T14:18:03.651Z", "2022-04-25T14:00:00.188Z",
                     "2022-04-25T10:00:00.188-04:00", "unknown"} |->
                CASE t = "2020-07-02T14:18:03.651Z" -> 1
                  [] t = "2022-04-25T14:00:00.188Z" -> 2
                  [] t = "2022-04-25T10:00:00.188-04:00" -> 2
                  [] t = "unknown" -> NaN]

\* date1 < date2 on Date objects: false when either is an Invalid Date
DateLess(d1, d2) == d1 # NaN /\ d2 # NaN /\ d1 < d2

DateLessOrEqual(d1, d2) == d1 # NaN /\ d2 # NaN /\ d1 <= d2

\* an object of a dataset, as far as getModifiedTime reads it
Matrix(modified) == [type |-> "x-mitre-matrix", modified |-> modified]
Pattern(modified) == [type |-> "attack-pattern", modified |-> modified]

\* a dataset: {} has no objects at all
AttackMap(objects) == [hasObjects |-> TRUE, objects |-> objects]
EmptyObject == [hasObjects |-> FALSE, objects |-> <<>>]

\* the datasets the helpers are called with
AttackMaps ==
    { EmptyObject,
      AttackMap(<<>>),
      AttackMap(<<Pattern("2022-04-25T14:00:00.188Z")>>),
      AttackMap(<<Matrix(Undefined)>>),
      AttackMap(<<Matrix("unknown")>>),
      AttackMap(<<Pattern("2022-04-25T14:00:00.188Z"), Matrix("2020-07-02T14:18:03.651Z")>>),
      AttackMap(<<Matrix("2022-04-25T14:00:00.188Z")>>),
      AttackMap(<<Matrix("2022-04-25T10:00:00.188-04:00")>>),
      AttackMap(<<Matrix("2022-04-25T14:00:00.188Z"), Matrix("2020-07-02T14:18:03.651Z")>>) }

\* Array.prototype.filter on the objects of a dataset, by type
RECURSIVE FilterType(_, _)
FilterType(objects, type) ==
    IF objects = <<>> THEN <<>>
    ELSE (IF objects[1].type = type THEN <<objects[1]>> ELSE <<>>)
         \o FilterType(Tail(objects), type)

\* mapping.objects?.filter(...).map(...) and mapMatrices?.pop()?.modified
getModifiedTime(mapping) ==
    IF ~mapping.hasObjects THEN Undefined
    ELSE LET mapMatrices == FilterType(mapping.objects, "x-mitre-matrix")
         IN  IF mapMatrices = <<>> THEN Undefined
             ELSE mapMatrices[Len(mapMatrices)].modified

\* isAttackMapNewer comparing with <=: a dataset is newer than itself
isAttackMapNewer_orEqual(prospective, familiar) ==
    LET prospectiveTime == getModifiedTime(prospective)
        familiarTime == getModifiedTime(familiar)
    IN  /\ prospectiveTime # Undefined
        /\ familiarTime # Undefined
        /\ DateLessOrEqual(DateValue[familiarTime], DateValue[prospectiveTime])

isAttackMapNewer(prospective, familiar) ==
    LET prospectiveTime == getModifiedTime(prospective)
        familiarTime == getModifiedTime(familiar)
    IN  /\ prospectiveTime # Undefined
        /\ familiarTime # Undefined
        /\ DateLess(DateValue[familiarTime], DateValue[prospectiveTime])

\* the cache variables while the helpers are called on their own
CacheAtRest ==
    /\ dirExists = FALSE
    /\ entries = {}
    /\ clock = 0
    /\ writes = <<>>
    /\ tags = <<>>
    /\ late = <<>>
    /\ js = [pc |-> "idle"]

cache == <<dirExists, entries, clock, writes, tags, late, js>>

InitHelpers ==
    /\ CacheAtRest
    /\ techniques = <<>>
    /\ messages = <<>>
    /\ call = NoCall
    /\ DeskAtRest

\* versionSorter(a, b)
versionSorter_call ==
    /\ \E a \in VersionTokens : \E b \in VersionTokens :
         call' = [fn |-> "versionSorter", a |-> a, b |-> b, out |-> versionSorter(a, b)]
    /\ UNCHANGED <<cache, desk, techniques, messages>>

\* `${availableVersions.sort(versionSorter)[availableVersions.length - 1]}`
sort_call ==
    /\ \E a \in VersionTokens : \E b \in VersionTokens :
         call' = [fn |-> "sort", list |-> <<a, b>>, out |-> LatestOf(<<a, b>>)]
    /\ UNCHANGED <<cache, desk, techniques, messages>>

\* getLatestCacheVersion on a directory of two cached datasets
getLatestCacheVersion_pair ==
    /\ \E a \in VersionTokens : \E b \in VersionTokens :
         LET dir == {File(DatasetFileName(a), JsonText(a, "seed"), 0),
                     File(DatasetFileName(b), JsonText(b, "seed"), 0)}
         IN  call' = [fn |-> "getLatestCacheVersion", a |-> a, b |-> b,
                      out |-> getLatestCacheVersion(TRUE, dir).path]
    /\ UNCHANGED <<cache, desk, techniques, messages>>

\* getVersions(prefix) or getVersions(prefix, ignoreBeta): its response ends
getVersions_call ==
    /\ \E prefix \in Prefixes : \E given \in {"default", "true", "false"} :
       \E list \in TagLists : \E body \in {"tags", "object", "notJSON"} :
         LET ignoreBeta == given # "false"
         IN  call' = [fn |-> "getVersions", prefix |-> prefix, ignoreBeta |-> given,
                      tags |-> list, body |-> body,
                      out |-> getVersions_end(body, list, prefix, ignoreBeta)]
    /\ UNCHANGED <<cache, desk, techniques, messages>>

\* getModifiedTime(mapping)
getModifiedTime_call ==
    /\ \E mapping \in AttackMaps :
         call' = [fn |-> "getModifiedTime", mapping |-> mapping,
                  out |-> getModifiedTime(mapping)]
    /\ UNCHANGED <<cache, desk, techniques, messages>>

\* isAttackMapNewer(prospective, familiar)
isAttackMapNewer_call ==
    /\ \E prospective \in AttackMaps : \E familiar \in AttackMaps :
         call' = [fn |-> "isAttackMapNewer", prospective |-> prospective,
                  familiar |-> familiar,
                  out |-> isAttackMapNewer(prospective, familiar)]
    /\ UNCHANGED <<cache, desk, techniques, messages>>

NextHelpers ==
    \/ versionSorter_call
    \/ sort_call
    \/ getLatestCacheVersion_pair
    \/ getVersions_call
    \/ getModifiedTime_call
    \/ isAttackMapNewer_call

SpecHelpers == InitHelpers /\ [][NextHelpers]_vars

\* ------------------------------------------------------------------------
\* Properties of the helpers
\* ------------------------------------------------------------------------

\* a compared with b component by component, as integers: -1, 0 or 1
CompareComponents(a, b) ==
    IF ComponentsLess(Components(a), Components(b)) THEN -1
    ELSE IF ComponentsLess(Components(b), Components(a)) THEN 1
    ELSE 0

RECURSIVE TokensOf(_, _)
TokensOf(refs, prefix) ==
    IF refs = <<>> THEN <<>>
    ELSE LET name == Tail(refs[1])
             rest == TokensOf(Tail(refs), prefix)
         IN  IF Len(name) >= Len(prefix) /\ SubSeq(name, 1, Len(prefix)) = prefix
             THEN <<IF name = prefix THEN prefix
                    ELSE SubSeq(name, Len(prefix) + 1, Len(name))>> \o rest
             ELSE rest

\* C12: getVersions(prefix) keeps exactly the tags whose name starts with the
\* prefix and returns each without the prefix, or the prefix itself for the tag
\* whose name is the prefix: a prefix that names exactly one tag, such as
\* subtechniques-beta, gives a list whose only element is that prefix.
C12_PrefixSelectsAndStrips ==
    (/\ call.fn = "getVersions"
     /\ call.ignoreBeta = "default"
     /\ call.body = "tags"
     /\ call.tags # <<>>)
    => /\ call.out.promise = "resolved"
       /\ call.out.value = TokensOf(call.tags, call.prefix)
       /\ TokensOf(call.tags, call.prefix) = <<call.prefix>> => Len(call.out.value) = 1

\* a dataset carries a modification time
HasModifiedTime(mapping) == getModifiedTime(mapping) # Undefined

\* dataset a was modified before dataset b, by the instants their times name
Older(a, b) ==
    /\ HasModifiedTime(a)
    /\ HasModifiedTime(b)
    /\ DateValue[getModifiedTime(a)] # NaN
    /\ DateValue[getModifiedTime(b)] # NaN
    /\ DateValue[getModifiedTime(a)] < DateValue[getModifiedTime(b)]

\* C13: isAttackMapNewer is a strict "newer than" on the modification times the
\* datasets carry: true for (newer, older), false for (older, newer) and for a
\* dataset and itself, and false when either dataset carries no time.
C13_StrictlyNewer ==
    call.fn = "isAttackMapNewer" =>
        /\ Older(call.familiar, call.prospective) => call.out = TRUE
        /\ Older(call.prospective, call.familiar) => call.out = FALSE
        /\ call.prospective = call.familiar => call.out = FALSE
        /\ (~HasModifiedTime(call.prospective) \/ ~HasModifiedTime(call.familiar))
              => call.out = FALSE

\* isAttackMapNewer has answered true for a newer dataset against an older one
C13_Witness ==
    /\ call.fn = "isAttackMapNewer"
    /\ Older(call.familiar, call.prospective)
    /\ call.out = TRUE

\* ------------------------------------------------------------------------
\* Texts as character sequences: identifiers, names, descriptions and search
\* terms, which are compared by case and searched for substrings
\* ------------------------------------------------------------------------

LowerCaseLetters == <<"a", "b", "c", "d", "e", "f", "g", "h", "i", "j", "k", "l", "m", "n",
        "o", "p", "q", "r", "s", "t", "u", "v", "w", "x", "y", "z">>

UpperCaseLetters == <<"A", "B", "C", "D", "E", "F", "G", "H", "I", "J", "K", "L", "M", "N",
        "O", "P", "Q", "R", "S", "T", "U", "V", "W", "X", "Y", "Z">>

\* the upper-case and the lower-case form of each letter
UpperOf ==
    [c \in {LowerCaseLetters[i] : i \in DOMAIN LowerCaseLetters} |->
        UpperCaseLetters[CHOOSE i \in DOMAIN LowerCaseLetters : LowerCaseLetters[i] = c]]

LowerOf ==
    [c \in {UpperCaseLetters[i] : i \in DOMAIN UpperCaseLetters} |->
        LowerCaseLetters[CHOOSE i \in DOMAIN UpperCaseLetters : UpperCaseLetters[i] = c]]

toUpperChar(c) == IF c \in DOMAIN UpperOf THEN UpperOf[c] ELSE c

toLowerChar(c) == IF c \in DOMAIN LowerOf THEN LowerOf[c] ELSE c

\* a text as it is
sameCase(s) == s

\* String.prototype.toUpperCase and toLowerCase
toUpperCase(s) == [i \in 1..Len(s) |-> toUpperChar(s[i])]

toLowerCase(s) == [i \in 1..Len(s) |-> toLowerChar(s[i])]

\* String.prototype.includes: every text includes the empty text
includes(s, pat) == \E i \in 1..(Len(s) + 1) : OccursAt(s, pat, i)

\* s.split(sep)[0] for a separator of one character
splitFirst(s, sep) ==
    LET at == {i \in 1..Len(s) : s[i] = sep}
    IN  IF at = {} THEN s
        ELSE SubSeq(s, 1, (CHOOSE i \in at : \A k \in at : i <= k) - 1)

\* ------------------------------------------------------------------------
\* Datasets and their normalization (init of techniques, tactics, groups,
\* software and mitigations)
\* ------------------------------------------------------------------------

\* the id and the url of an entity without a reference to ATT&CK
UnknownId == <<"<", "u", "n", "k", "n", "o", "w", "n", ">">>
UnknownUrl == "<unknown>"

NoDescription == <<"N", "o", " ", "d", "e", "s", "c", "r", "i", "p", "t", "i", "o", "n", " ",
        "a", "v", "a", "i", "l", "a", "b", "l", "e", ".">>

\* an entry of external_references
Reference(source_name, external_id, url) ==
    [source_name |-> source_name, external_id |-> external_id, url |-> url]

\* an entry of kill_chain_phases
Phase(kill_chain_name, phase_name) ==
    [kill_chain_name |-> kill_chain_name, phase_name |-> phase_name]

\* An object of a dataset.  description is <<>> when the object has none and
\* <<text>> otherwise; revoked, x_mitre_deprecated and x_mitre_is_subtechnique
\* are "true", "false" or "undefined".
AttackObject(type, name, description, refs, flags) ==
    [type |-> type, name |-> name, description |-> description,
     external_references |-> refs,
     kill_chain_phases |-> flags.phases,
     revoked |-> flags.revoked,
     x_mitre_deprecated |-> flags.deprecated,
     x_mitre_is_subtechnique |-> flags.subtechnique]

Plain == [phases |-> <<Phase("mitre-attack", "execution"),
                       Phase("mitre-attack", "persistence")>>,
          revoked |-> "false", deprecated |-> "false", subtechnique |-> "false"]
Single == [Plain EXCEPT !.phases = <<Phase("lockheed", "delivery"),
                                     Phase("mitre-attack", "execution")>>]
Sub == [Plain EXCEPT !.subtechnique = "true"]
Revoked == [Plain EXCEPT !.revoked = "true"]
Deprecated == [phases |-> <<Phase("mitre-attack", "defense-evasion"),
                            Phase("mitre-attack", "execution")>>,
               revoked |-> "undefined", deprecated |-> "true",
               subtechnique |-> "undefined"]
NoFlags == [phases |-> <<>>, revoked |-> "undefined", deprecated |-> "undefined",
            subtechnique |-> "undefined"]

Attack(id, path) == Reference("mitre-attack", id, path)

\* the objects of the ATT&CK dataset the extension is tested with, cut down
EnterpriseObjects ==
    << AttackObject("attack-pattern", <<"I", "n", "t", "e", "r", "p", "r", "e", "t", "e",
            "r">>, <<<<"a", "b", "u", "s", "e", " ", "t", "h", "e", " ", "i", "n", "t", "e",
            "r", "p", "r", "e", "t", "e", "r", "s">>>>,
                    <<Attack(<<"T", "1", "0", "5", "9">>, "techniques/T1059")>>, Single),
       AttackObject("attack-pattern", <<"P", "o", "w", "e", "r", "S", "h", "e", "l", "l">>,
               <<<<"a", "b", "u", "s", "e", " ", "P", "o", "w", "e", "r", "S", "h", "e", "l",
               "l", "\n", "a", "n", "d", " ", "c", "m", "d", "l", "e", "t", "s">>>>,
                    <<Attack(<<"T", "1", "0", "5", "9", ".", "0", "0", "1">>,
                            "techniques/T1059/001")>>, Sub),
       AttackObject("attack-pattern", <<"P", "o", "w", "e", "r", "S", "h", "e", "l", "l">>,
               <<<<"a", "b", "u", "s", "e", " ", "t", "h", "e", " ", "o", "l", "d", " ", "P",
               "o", "w", "e", "r", "S", "h", "e", "l", "l">>>>,
                    <<Attack(<<"T", "1", "0", "8", "6">>, "techniques/T1086")>>, Revoked),
       AttackObject("attack-pattern", <<"S", "c", "r", "i", "p", "t", "i", "n", "g">>,
               <<<<"a", "b", "u", "s", "e", " ", "s", "c", "r", "i", "p", "t", "s">>>>,
                    <<Reference("capec", <<"C", "A", "P", "E", "C", "-", "1", "9">>,
                            "capec/19"),
                      Attack(<<"T", "1", "0", "6", "4">>, "techniques/T1064")>>,
                              Deprecated),
       AttackObject("attack-pattern", <<"D", "e", "c", "o", "d", "e">>, <<<<"a", "b", "u",
               "s", "e", " ", "c", "e", "r", "t", "u", "t", "i", "l", " ", "o", "n", " ",
               "f", "i", "l", "e", "s">>>>,
                    <<Attack(<<"T", "1", "1", "4", "0">>, "techniques/T1140")>>, Plain),
       AttackObject("attack-pattern", <<"P", "o", "w", "e", "r", "S", "h", "e", "l", "l",
               " ", "P", "r", "o", "f", "i", "l", "e">>, <<<<"p", "r", "o", "f", "i", "l",
               "e", "s", " ", "<", "c", "o", "d", "e", ">", "a", "\\", "<", "/", "c", "o",
               "d", "e", ">">>>>,
                    <<Attack(<<"T", "1", "5", "4", "6", ".", "0", "1", "3">>,
                            "techniques/T1546/013")>>, Sub),
       AttackObject("attack-pattern", <<"X", "D", "G", " ", "A", "u", "t", "o", "s", "t",
               "a", "r", "t">>, <<<<"X", "D", "G", " ", "f", "i", "l", "e", "s">>>>,
                    <<Attack(<<"T", "1", "5", "4", "7", ".", "0", "1", "3">>,
                            "techniques/T1547/013")>>, Sub),
       AttackObject("x-mitre-tactic", <<"E", "x", "e", "c", "u", "t", "i", "o", "n">>,
               <<<<"r", "u", "n", " ", "c", "o", "d", "e">>>>,
                    <<Attack(<<"T", "A", "0", "0", "0", "2">>, "tactics/TA0002")>>,
                            NoFlags),
       AttackObject("intrusion-set", <<"A", "P", "T", "1">>, <<>>,
                    <<Attack(<<"G", "0", "0", "0", "6">>, "groups/G0006")>>, NoFlags),
       AttackObject("tool", <<"c", "e", "r", "t", "u", "t", "i", "l">>, <<<<"a", " ", "t",
               "o", "o", "l">>>>,
                    <<Attack(<<"S", "0", "1", "6", "0">>, "software/S0160")>>, NoFlags),
       AttackObject("course-of-action", <<"A", "u", "d", "i", "t">>, <<<<"a", "u", "d", "i",
               "t">>>>,
                    <<Attack(<<"M", "1", "0", "4", "7">>, "mitigations/M1047")>>,
                            NoFlags) >>

\* objects whose references name ATT&CK twice, or not at all
IrregularObjects ==
    << AttackObject("attack-pattern", <<"A", "l", "p", "h", "a">>, <<<<"f", "i", "r", "s",
            "t">>>>,
                    <<Attack(<<"T", "1", "0", "0", "1">>, "techniques/T1001"),
                      Reference("capec", <<"C", "A", "P", "E", "C", "-", "1">>, "capec/1"),
                      Attack(<<"T", "1", "0", "0", "2">>, "techniques/T1002")>>, Single),
       AttackObject("attack-pattern", <<"B", "e", "t", "a">>, <<>>, <<>>, NoFlags),
       AttackObject("attack-pattern", <<"G", "a", "m", "m", "a">>, <<<<"t", "h", "i", "r",
               "d">>>>,
                    <<Reference("capec", <<"C", "A", "P", "E", "C", "-", "3">>, "capec/3")>>,
                            Sub),
       AttackObject("attack-pattern", <<"D", "e", "l", "t", "a">>, <<<<"f", "o", "u", "r",
               "t", "h">>>>,
                    <<Attack(<<"T", "1", "0", "0", "2", "/", "0", "0", "1">>,
                            "techniques/T1002/001")>>, Sub),
       AttackObject("x-mitre-tactic", <<"I", "m", "p", "a", "c", "t">>, <<<<"i", "m", "p",
               "a", "c", "t">>>>,
                    <<Attack(<<"T", "A", "0", "0", "4", "0">>, "tactics/TA0040"),
                      Attack(<<"T", "A", "0", "0", "4", "1">>, "tactics/TA0041")>>,
                              NoFlags),
       AttackObject("intrusion-set", <<"A", "P", "T", "2">>, <<<<"a", " ", "g", "r", "o",
               "u", "p">>>>,
                    <<Attack(<<"G", "0", "0", "0", "1">>, "groups/G0001"),
                      Attack(<<"G", "0", "0", "0", "2">>, "groups/G0002")>>, NoFlags),
       AttackObject("malware", <<"A", "g", "e", "n", "t">>, <<<<"m", "a", "l", "w", "a", "r",
               "e">>>>,
                    <<Attack(<<"S", "0", "0", "0", "1">>, "software/S0001"),
                      Attack(<<"S", "0", "0", "0", "2">>, "software/S0002")>>, NoFlags),
       AttackObject("course-of-action", <<"P", "a", "t", "c", "h">>, <<<<"p", "a", "t", "c",
               "h">>>>,
                    <<Attack(<<"M", "1", "0", "5", "1">>, "mitigations/M1051"),
                      Attack(<<"M", "1", "0", "5", "2">>, "mitigations/M1052")>>, NoFlags),
       AttackObject("course-of-action", <<"D", "e", "c", "o", "d", "e", " ", "M", "i", "t",
               "i", "g", "a", "t", "i", "o", "n">>, <<<<"s", "t", "u", "b">>>>,
                    <<Attack(<<"T", "1", "1", "4", "0">>, "mitigations/T1140")>>, NoFlags),
       AttackObject("course-of-action", <<"U", "n", "l", "i", "s", "t", "e", "d">>, <<>>,
               <<>>, NoFlags),
       AttackObject("tool", <<"U", "n", "n", "a", "m", "e", "d">>, <<>>, <<>>, NoFlags) >>

\* the datasets init is called with
Datasets == {EnterpriseObjects, IrregularObjects, <<>>}

\* the entity kinds, and the types of the objects of each
Kinds == {"techniques", "tactics", "groups", "software", "mitigations"}

TypesOf(kind) ==
    CASE kind = "techniques" -> {"attack-pattern"}
      [] kind = "tactics" -> {"x-mitre-tactic"}
      [] kind = "groups" -> {"intrusion-set"}
      [] kind = "software" -> {"malware", "tool"}
      [] kind = "mitigations" -> {"course-of-action"}

\* item.external_references?.forEach(...): the `return` ends one call of the
\* callback, and forEach goes on to the next reference
RECURSIVE forEachReference(_, _)
forEachReference(entity, refs) ==
    IF refs = <<>> THEN entity
    ELSE forEachReference(
             IF refs[1].source_name = "mitre-attack"
             THEN [entity EXCEPT !.id = refs[1].external_id, !.url = refs[1].url]
             ELSE entity,
             Tail(refs))

\* the description of an object, or the text that stands for a missing one
descriptionOf(item) ==
    IF item.description = <<>> THEN NoDescription ELSE item.description[1]

\* kill_chain_phases?.filter(...).map(...): the phase names of ATT&CK
RECURSIVE tacticsOf(_)
tacticsOf(phases) ==
    IF phases = <<>> THEN <<>>
    ELSE (IF phases[1].kill_chain_name = "mitre-attack"
          THEN <<phases[1].phase_name>> ELSE <<>>) \o tacticsOf(Tail(phases))

\* the callback of map in init: one object normalized.  parent is the position
\* of the parent technique in the collection, 0 while it is undefined.
normalize(item) ==
    forEachReference(
        [description |-> [short |-> splitFirst(descriptionOf(item), "\n"),
                          long |-> descriptionOf(item)],
         id |-> UnknownId,
         name |-> item.name,
         parent |-> 0,
         revoked |-> item.revoked,
         deprecated |-> item.x_mitre_deprecated,
         subtechnique |-> item.x_mitre_is_subtechnique,
         tactics |-> tacticsOf(item.kill_chain_phases),
         url |-> UnknownUrl],
        item.external_references)

\* a normalization that keeps the objects with a reference to ATT&CK only
filterMap_identified(objects, types) ==
    LET kept == SelectSeq(objects, LAMBDA o :
                    /\ o.type \in types
                    /\ \E k \in 1..Len(o.external_references) :
                          o.external_references[k].source_name = "mitre-attack")
    IN  [k \in 1..Len(kept) |-> normalize(kept[k])]

\* attackData.objects.filter(type).map(normalize)
RECURSIVE filterMap(_, _)
filterMap(objects, types) ==
    IF objects = <<>> THEN <<>>
    ELSE (IF objects[1].type \in types THEN <<normalize(objects[1])>> ELSE <<>>)
         \o filterMap(Tail(objects), types)

\* the position of the first entity whose id is `id`, 0 when there is none
find(entities, id) ==
    IF \E i \in 1..Len(entities) : entities[i].id = id
    THEN CHOOSE i \in 1..Len(entities) :
             entities[i].id = id /\ \A k \in 1..(i - 1) : entities[k].id # id
    ELSE 0

\* the second pass of init in techniques.ts: the parents of the subtechniques
withParents(entities) ==
    [i \in 1..Len(entities) |->
        IF entities[i].subtechnique = "true"
        THEN [entities[i] EXCEPT !.parent = find(entities, splitFirst(entities[i].id, "."))]
        ELSE entities[i]]

\* id.match(mitigationRegex), /M\d{4}/
Digits == {"0", "1", "2", "3", "4", "5", "6", "7", "8", "9"}

matchesMitigationRegex(id) ==
    \E i \in 1..Len(id) :
        /\ id[i] = "M"
        /\ i + 4 <= Len(id)
        /\ \A k \in (i + 1)..(i + 4) : id[k] \in Digits

RECURSIVE filterMitigations(_)
filterMitigations(entities) ==
    IF entities = <<>> THEN <<>>
    ELSE (IF matchesMitigationRegex(entities[1].id) THEN <<entities[1]>> ELSE <<>>)
         \o filterMitigations(Tail(entities))

\* init(attackData) of the module of a kind
init(kind, objects) ==
    CASE kind = "techniques" -> withParents(filterMap(objects, TypesOf(kind)))
      [] kind = "mitigations" -> filterMitigations(filterMap(objects, TypesOf(kind)))
      [] OTHER -> filterMap(objects, TypesOf(kind))

\* ------------------------------------------------------------------------
\* Search over the technique collection (doSearch, search) and the technique
\* completion provider.  Techniques are named by their positions in the
\* collection, so that a result tells which entities it holds and in what order.
\* ------------------------------------------------------------------------

\* the shortest term that is searched without more ado
minTermLength == 5

\* the most description matches a completion offers
maxDescriptionItems == 3

\* the most notifications shown in a run
MaxMessages == 2

\* the positions of S in decreasing order
RECURSIVE Descending(_)
Descending(S) ==
    IF S = {} THEN <<>>
    ELSE LET m == CHOOSE i \in S : \A k \in S : i >= k
         IN  <<m>> \o Descending(S \ {m})

\* the positions of S in increasing order
RECURSIVE Ascending(_)
Ascending(S) ==
    IF S = {} THEN <<>>
    ELSE LET m == CHOOSE i \in S : \A k \in S : i <= k
         IN  <<m>> \o Ascending(S \ {m})

\* Array.prototype.filter over the techniques at `positions`
filter(positions, keep) == Ascending({i \in keep : Includes(positions, i)})

\* the techniques that are not revoked, and those that are
allTechniques(entities) == Ascending(1..Len(entities))

getCurrentTechniques(entities) ==
    Ascending({i \in 1..Len(entities) : entities[i].revoked # "true"})

getRevokedTechniques(entities) ==
    Ascending({i \in 1..Len(entities) : entities[i].revoked = "true"})

\* the notifications, without the term they quote
ErrorMessage == [kind |-> "error", text |-> "ATT&CK: Could not find technique matching"]
WarningMessage == [kind |-> "warning", text |-> "may return more results than expected"]

\* the else branch of doSearch: an input that is not empty
doSearch_else(input, entities) ==
    LET revokedTechniques == getRevokedTechniques(entities)
        currentTechniques == getCurrentTechniques(entities)
        byRevokedId == filter(revokedTechniques,
            {i \in 1..Len(entities) : toUpperCase(entities[i].id) = toUpperCase(input)})
        byIdOrName == filter(currentTechniques,
            {i \in 1..Len(entities) :
                \/ toUpperCase(entities[i].id) = toUpperCase(input)
                \/ includes(toUpperCase(entities[i].name), toUpperCase(input))})
        byDescription == filter(currentTechniques,
            {i \in 1..Len(entities) : includes(entities[i].description.long, input)})
        results == IF byRevokedId # <<>> THEN byRevokedId
                   ELSE IF byIdOrName # <<>> THEN byIdOrName
                   ELSE byDescription
    IN  [results |-> results,
         shown |-> IF results = <<>> THEN <<ErrorMessage>> ELSE <<>>,
         scanned |-> IF byRevokedId # <<>> THEN "ids"
                     ELSE IF byIdOrName # <<>> THEN "names"
                     ELSE "descriptions"]

\* a search that does not look whether the input is empty
doSearch_unchecked(input, entities) == doSearch_else(input, entities)

\* doSearch(input, techniques): the techniques found, the notifications shown,
\* and the last of the three filters that ran
doSearch(input, entities) ==
    IF Len(input) = 0
    THEN [results |-> <<>>, shown |-> <<>>, scanned |-> "nothing"]
    ELSE doSearch_else(input, entities)

\* filterText of a technique: the name, after the name of the parent if any
filterText(entities, i) ==
    IF entities[i].parent # 0
    THEN entities[entities[i].parent].name \o <<":", " ">> \o entities[i].name
    ELSE entities[i].name

\* buildTechniqueDescription(technique): the one tactic of a technique is
\* taken off its list by tactics.pop() when the description is built
buildTechniqueDescription(entities, i) ==
    IF Len(entities[i].tactics) = 1
    THEN [entities EXCEPT ![i].tactics = SubSeq(@, 1, Len(@) - 1)]
    ELSE entities

\* buildTechniqueDescription for each of the techniques at `positions`
RECURSIVE buildDescriptions(_, _)
buildDescriptions(entities, positions) ==
    IF positions = <<>> THEN entities
    ELSE buildDescriptions(buildTechniqueDescription(entities, positions[1]),
            Tail(positions))

\* the text `\</code>`
EscapedCode == <<"\\", "<", "/", "c", "o", "d", "e", ">">>
\* buildTechnique(technique) of the search: where the long description holds
\* an escaped </code> after a character other than `\`
\* (/[^\\]\\<\/code\>/), the first is given a second `\`, in the technique itself
buildTechnique(entities, i) ==
    LET text == entities[i].description.long
    IN  IF \E k \in 1..Len(text) : text[k] # "\\" /\ OccursAt(text, EscapedCode, k + 1)
        THEN [entities EXCEPT
                ![i].description.long = ReplaceFirst(@, EscapedCode,
                        <<"\\">> \o EscapedCode)]
        ELSE entities

\* techniqueRegex, /T\d{4}([./]\d{3})?/, matching the whole of a word
matchesTechniqueRegex(word) ==
    /\ Len(word) \in {5, 9}
    /\ word[1] = "T"
    /\ \A k \in 2..5 : word[k] \in Digits
    /\ Len(word) = 9 => (word[6] \in {".", "/"} /\ \A k \in 7..9 : word[k] \in Digits)

\* The tiers of provideCompletionItems of TechniqueCompletionProvider.  given is
\* what the first call of resolve is passed, "undefined" or "items": a later call
\* of resolve does not change what the promise has resolved with.
completionOf(term, hasRange, triggerKind, entities, cap) ==
    LET current == getCurrentTechniques(entities)
        revoked == getRevokedTechniques(entities)
        all == [given |-> "items", tier |-> "everything", items |-> current, built |-> <<>>]
        byId == filter(current,
                {i \in 1..Len(entities) : entities[i].id = toUpperCase(term)})
        byName == filter(current,
            {i \in 1..Len(entities) :
                includes(toLowerCase(filterText(entities, i)), toLowerCase(term))})
        byDescription == filter(current,
            {i \in 1..Len(entities) :
                includes(toLowerCase(entities[i].description.long), toLowerCase(term))})
    IN  IF ~hasRange THEN all
        ELSE IF Len(term) < minTermLength THEN all
        ELSE IF \E k \in 1..Len(revoked) : entities[revoked[k]].id = toUpperCase(term)
        THEN [given |-> "items", tier |-> "revoked", items |-> <<>>, built |-> <<>>]
        ELSE IF byId # <<>>
        THEN [given |-> "items", tier |-> "id", items |-> <<byId[1]>>, built |-> <<>>]
        ELSE IF byName # <<>>
        THEN [given |-> "items", tier |-> "name", items |-> byName, built |-> <<>>]
        ELSE IF triggerKind = "Invoke"
        THEN IF Len(byDescription) > cap
             THEN [given |-> "undefined", tier |-> "description", items |-> <<>>,
                   built |-> byDescription]
             ELSE [given |-> "items", tier |-> "description", items |-> byDescription,
                   built |-> byDescription]
        ELSE [given |-> "items", tier |-> "name", items |-> <<>>, built |-> <<>>]

provideCompletionItems_uncapped(term, hasRange, triggerKind, entities) ==
    completionOf(term, hasRange, triggerKind, entities, Len(entities))

provideCompletionItems(term, hasRange, triggerKind, entities) ==
    completionOf(term, hasRange, triggerKind, entities, maxDescriptionItems)

\* the terms searched for, besides the identifiers of the collection
Terms ==
    { <<>>, <<"P", "o", "w", "e", "r", "S", "h", "e", "l", "l">>, <<"p", "o", "w", "e",
            "r">>, <<"s", "c", "r", "i", "p", "t">>, <<"t", "h", "e">>, <<"c", "e", "r", "t",
            "u", "t", "i", "l">>, <<"C", "e", "r", "t", "u", "t", "i", "l">>,
      <<"f", "i", "l", "e", "s">>, <<"a", "b", "u", "s", "e">>, <<"A", "B", "U", "S", "E">>,
              <<"x", "d", "g">>, <<"X", "D", "G", " ", "f">>, <<"n", "o", "t", "h", "i", "n",
              "g">>, <<"T", "1", "0", "5", "9">>,
      <<"f", "i", "r", "s", "t">>, <<"p", "r", "o", "f", "i", "l", "e">> }

Inputs ==
    Terms \cup {techniques[i].id : i \in 1..Len(techniques)}
          \cup {toLowerCase(techniques[i].id) : i \in 1..Len(techniques)}

\* the terms completed
CompletionTerms ==
    { <<"a", "b", "u", "s", "e">>, <<"A", "B", "U", "S", "E">>, <<"f", "i", "l", "e", "s">>,
            <<"c", "e", "r", "t", "u", "t", "i", "l">>, <<"C", "e", "r", "t", "u", "t", "i",
            "l">>, <<"t", "h", "e">>, <<"p", "o", "w", "e", "r">>,
      <<"p", "r", "o", "f", "i", "l", "e">>, <<"n", "o", "t", "h", "i", "n", "g">>, <<"T",
              "1", "0", "5", "9">>, <<"t", "1", "0", "8", "6">>, <<"T", "1", "0", "5", "9",
              ".", "0", "0", "1">> }

\* the extension at rest, before activation has parsed a dataset
InitLookup ==
    /\ CacheAtRest
    /\ techniques = <<>>
    /\ messages = <<>>
    /\ call = NoCall
    /\ DeskAtRest

\* no search command is waiting for the user
Settled == IF call.fn = "search" THEN call.pc = "done" ELSE TRUE

\* init(attackData) of one of the modules.  The extension keeps the techniques
\* of the call activate makes; a later call returns a collection of its own.
init_call ==
    \E kind \in Kinds, objects \in Datasets :
        /\ Settled
        /\ call' = [fn |-> "init", kind |-> kind, objects |-> objects,
                    out |-> init(kind, objects)]
        /\ techniques' = IF kind = "techniques" /\ techniques = <<>>
                          THEN init(kind, objects) ELSE techniques
        /\ UNCHANGED <<cache, desk, messages>>

\* doSearch(input, techniques)
doSearch_call ==
    \E input \in Inputs :
        /\ Settled
        /\ Len(messages) < MaxMessages
        /\ LET found == doSearch(input, techniques)
           IN  /\ call' = [fn |-> "doSearch", input |-> input, techniques0 |-> techniques,
                           messages0 |-> messages, results |-> found.results,
                           scanned |-> found.scanned]
               /\ messages' = messages \o found.shown
        /\ UNCHANGED <<cache, desk, techniques>>

\* updatePanel(panel, technique, currentPosition, totalTechniques, resourceUri)
updatePanel(entities, results, currentPosition) ==
    LET i == results[currentPosition + 1]
    IN  [open |-> TRUE, results |-> results, currentPosition |-> currentPosition,
         shown |-> i, title |-> entities[i].id \o <<":", " ">> \o entities[i].name,
         navigation |-> Len(results) > 1]

\* the search command, up to the input box; one panel is open at a time
search_call ==
    /\ Settled
    /\ ~panel.open
    /\ Len(messages) + 1 < MaxMessages
    /\ call' = [fn |-> "search", pc |-> "showInputBox", input |-> <<>>,
                confirmation |-> "none", results |-> <<>>, scanned |-> "nothing",
                panel |-> FALSE]
    /\ UNCHANGED <<cache, desk, techniques, messages>>

\* the search command after the search itself: displayPanel shows the first
\* of the results
search_end(input, confirmation) ==
    LET found == doSearch(input, techniques)
    IN  /\ call' = [call EXCEPT !.pc = "done", !.input = input,
                                !.confirmation = confirmation,
                                !.results = found.results, !.scanned = found.scanned,
                                !.panel = (Len(found.results) > 0)]
        /\ messages' = messages \o found.shown
        /\ IF Len(found.results) > 0
           THEN /\ panel' = updatePanel(techniques, found.results, 0)
                /\ techniques' = buildTechnique(techniques, found.results[1])
           ELSE UNCHANGED <<panel, techniques>>
        /\ UNCHANGED <<settings, providers>>

\* the input box is dismissed
showInputBox_undefined ==
    /\ call.fn = "search" /\ call.pc = "showInputBox"
    /\ call' = [call EXCEPT !.pc = "done", !.confirmation = "cancelled"]
    /\ UNCHANGED <<cache, desk, techniques, messages>>

\* the input box is answered
showInputBox_done ==
    \E input \in Inputs :
        /\ call.fn = "search" /\ call.pc = "showInputBox"
        /\ IF Len(input) = 0
           THEN /\ call' = [call EXCEPT !.pc = "done", !.confirmation = "cancelled"]
                /\ UNCHANGED <<desk, techniques, messages>>
           ELSE IF Len(input) < minTermLength
           THEN /\ call' = [call EXCEPT !.pc = "showWarningMessage", !.input = input]
                /\ messages' = Append(messages, WarningMessage)
                /\ UNCHANGED <<desk, techniques>>
           ELSE search_end(input, "none")
        /\ UNCHANGED cache

\* the modal question about a short term is answered or dismissed
showWarningMessage_done ==
    \E confirmation \in {"Ok", Undefined} :
        /\ call.fn = "search" /\ call.pc = "showWarningMessage"
        /\ IF confirmation = Undefined
           THEN /\ call' = [call EXCEPT !.pc = "done", !.confirmation = "cancelled"]
                /\ UNCHANGED <<desk, techniques, messages>>
           ELSE search_end(call.input, confirmation)
        /\ UNCHANGED cache

\* provideCompletionItems of the technique completion provider
provideCompletionItems_call ==
    \E term \in CompletionTerms, hasRange \in BOOLEAN,
       triggerKind \in {"Invoke", "TriggerCharacter"} :
        /\ Settled
        /\ LET out == provideCompletionItems(term, hasRange, triggerKind, techniques)
           IN  /\ call' = [fn |-> "provideCompletionItems", term |-> term,
                           hasRange |-> hasRange, triggerKind |-> triggerKind,
                           given |-> out.given, tier |-> out.tier, items |-> out.items,
                           techniques0 |-> techniques]
               /\ techniques' = buildDescriptions(techniques, out.built)
        /\ UNCHANGED <<cache, desk, messages>>

\* the words a hover is asked about: the ids of the collection and one more
HoverTerms ==
    {word \in {techniques[i].id : i \in 1..Len(techniques)} \cup {<<"T", "9", "9", "9",
            "9">>} :
        matchesTechniqueRegex(word)}

\* provideHover of TechniqueHoverProvider, over all techniques
provideHover_call ==
    \E hoverTerm \in HoverTerms :
        /\ Settled
        /\ LET i == find(techniques, hoverTerm)
           IN  /\ call' = [fn |-> "provideHover", term |-> hoverTerm, found |-> i,
                           tactics |-> IF i # 0 THEN techniques[i].tactics ELSE <<>>,
                           techniques0 |-> techniques]
               /\ techniques' = IF i # 0 THEN buildTechniqueDescription(techniques, i)
                                 ELSE techniques
        /\ UNCHANGED <<cache, desk, messages>>

\* the technique resolveCompletionItem documents an item with: among the
\* techniques that are not revoked, the first of the item's standing (tagged
\* Deprecated or not) whose id or name is the label; 0 when there is none
resolvedTechnique(entities, label, tagged) ==
    LET among == {i \in 1..Len(entities) :
                    /\ entities[i].revoked # "true"
                    /\ (entities[i].deprecated = "true") = tagged
                    /\ (entities[i].id = label \/ entities[i].name = label)}
    IN  IF among = {} THEN 0 ELSE CHOOSE i \in among : \A k \in among : i <= k

\* resolveCompletionItem of the technique completion provider, for an item
\* that provideCompletionItems made of a technique by its id or its name
resolveCompletionItem_call ==
    \E t \in 1..Len(techniques), byName \in BOOLEAN :
        /\ Settled
        /\ techniques[t].revoked # "true"
        /\ LET label == IF byName THEN techniques[t].name ELSE techniques[t].id
               tagged == techniques[t].deprecated = "true"
               i == resolvedTechnique(techniques, label, tagged)
           IN  /\ call' = [fn |-> "resolveCompletionItem", label |-> label,
                           tagged |-> tagged, found |-> i,
                           tactics |-> IF i # 0 THEN techniques[i].tactics ELSE <<>>,
                           techniques0 |-> techniques]
               /\ techniques' = IF i # 0 THEN buildTechniqueDescription(techniques, i)
                                 ELSE techniques
        /\ UNCHANGED <<cache, desk, messages>>

\* a panel that stops at its ends instead of wrapping
moved_clamped(currentPosition, command, length) ==
    CASE command = "previous" ->
            IF currentPosition - 1 < 0 THEN 0 ELSE currentPosition - 1
      [] command = "next" ->
            IF currentPosition + 1 >= length THEN length - 1 ELSE currentPosition + 1
      [] OTHER -> currentPosition

\* the currentPosition after a message
moved(currentPosition, command, length) ==
    CASE command = "previous" ->
            IF currentPosition - 1 < 0 THEN length - 1 ELSE currentPosition - 1
      [] command = "next" ->
            IF currentPosition + 1 >= length THEN 0 ELSE currentPosition + 1
      [] OTHER -> currentPosition

\* the callback of panel.webview.onDidReceiveMessage in displayPanel, for
\* what the script of the panel posts and for a message of another kind
onDidReceiveMessage ==
    \E command \in {"previous", "next", "other"} :
        /\ panel.open
        /\ LET position == moved(panel.currentPosition, command, Len(panel.results))
           IN  /\ panel' = updatePanel(techniques, panel.results, position)
               /\ techniques' = buildTechnique(techniques, panel.results[position + 1])
               /\ call' = [fn |-> "onDidReceiveMessage", command |-> command,
                           from |-> panel.currentPosition, techniques0 |-> techniques]
        /\ UNCHANGED <<cache, settings, providers, messages>>

\* the user closes the panel
panel_dispose ==
    /\ panel.open
    /\ panel' = NoPanel
    /\ UNCHANGED <<cache, settings, providers, techniques, messages, call>>

NextLookup ==
    \/ init_call
    \/ doSearch_call
    \/ provideCompletionItems_call
    \/ provideHover_call
    \/ resolveCompletionItem_call

SpecLookup == InitLookup /\ [][NextLookup]_vars

\* the search command and the panel of its results
NextSearch ==
    \/ init_call
    \/ search_call
    \/ showInputBox_undefined
    \/ showInputBox_done
    \/ showWarningMessage_done
    \/ onDidReceiveMessage
    \/ panel_dispose

SpecSearch == InitLookup /\ [][NextSearch]_vars

\* ------------------------------------------------------------------------
\* Properties of the search
\* ------------------------------------------------------------------------

\* a letter with its case folded away, and texts equal but for the case
Fold(c) == IF c \in DOMAIN LowerOf THEN LowerOf[c] ELSE c

SameLetters(a, b) == Len(a) = Len(b) /\ \A k \in 1..Len(a) : Fold(a[k]) = Fold(b[k])

\* pat occurs in s, the case of the letters disregarded or regarded
ContainsFolded(s, pat) ==
    \E off \in 0..(Len(s) - Len(pat)) : \A k \in 1..Len(pat) : Fold(s[off + k]) = Fold(pat[k])

ContainsExactly(s, pat) ==
    \E off \in 0..(Len(s) - Len(pat)) : \A k \in 1..Len(pat) : s[off + k] = pat[k]

\* a sequence of positions in the order of the collection, without repetition
InCollectionOrder(positions) ==
    \A j, k \in 1..Len(positions) : j < k => positions[j] < positions[k]

Range(s) == {s[k] : k \in 1..Len(s)}

C15_RetiredOnlyByIdentifier ==
    call.fn = "doSearch" =>
        \A k \in 1..Len(call.results) :
            LET t == call.techniques0[call.results[k]]
            IN  (t.revoked = "true" \/ t.deprecated = "true") => SameLetters(call.input,
                    t.id)

\* C15: a revoked technique is in a result of doSearch only when the query
\* equals its identifier, never through its name or its description; a
\* technique that is deprecated and not revoked is searched like any active
\* one, and is returned for a query that its name contains
C15_RevokedOnlyByIdentifier ==
    call.fn = "doSearch" =>
        /\ \A k \in 1..Len(call.results) :
            LET t == call.techniques0[call.results[k]]
            IN  t.revoked = "true" => SameLetters(call.input, t.id)
        /\ \A i \in 1..Len(call.techniques0) :
            LET t == call.techniques0[i]
            IN  ( /\ t.deprecated = "true" /\ t.revoked # "true"
                  /\ call.input # <<>>
                  /\ ContainsFolded(t.name, call.input)
                  /\ \A j \in 1..Len(call.techniques0) :
                        call.techniques0[j].revoked = "true"
                        => ~SameLetters(call.input, call.techniques0[j].id) )
                => i \in Range(call.results)

\* the query is the name of a revoked technique and of an active one: only the
\* active one is returned
C15_Witness ==
    /\ call.fn = "doSearch"
    /\ call.results # <<>>
    /\ \E i \in 1..Len(call.techniques0) :
        /\ call.techniques0[i].revoked = "true"
        /\ call.techniques0[i].name = call.input
        /\ ContainsExactly(call.techniques0[i].description.long, call.input)
        /\ i \notin Range(call.results)

\* C16 as stated: the descriptions are scanned only for a query of at least
\* minTermLength characters that no identifier and no name has matched; a
\* shorter query, such as "the", never has the descriptions scanned
C16_ShortTermNeverScansDescriptions ==
    (call.fn \in {"doSearch", "search"} /\ call.scanned = "descriptions")
    => Len(call.input) >= minTermLength

C18_EmptyQueryDoesNothing ==
    (call.fn = "doSearch" /\ call.input = <<>>)
    => /\ call.results = <<>>
       /\ messages = call.messages0
       /\ call.scanned = "nothing"
       /\ techniques = call.techniques0

\* the empty query is searched for in a collection that is not empty
C18_Witness ==
    /\ call.fn = "doSearch"
    /\ call.input = <<>>
    /\ Len(techniques) > 1
    /\ call.results = <<>>

\* C19: when the completion provider comes to search the descriptions, a term
\* found in the descriptions of more than maxDescriptionItems techniques gives
\* no item at all, and a term found in one to maxDescriptionItems descriptions
\* gives exactly those techniques
C19_TooManyDescriptionMatchesAreDropped ==
    (call.fn = "provideCompletionItems" /\ call.tier = "description")
    => LET described == {i \in 1..Len(techniques) :
                            /\ techniques[i].revoked # "true"
                            /\ ContainsFolded(techniques[i].description.long, call.term)}
       IN  /\ Cardinality(described) > 3 => (call.given = "undefined" /\ call.items = <<>>)
           /\ Cardinality(described) \in 1..3
              => /\ call.given = "items"
                 /\ InCollectionOrder(call.items)
                 /\ Range(call.items) = described

\* a term found in more than three descriptions is completed on request
C19_Witness ==
    /\ call.fn = "provideCompletionItems"
    /\ call.tier = "description"
    /\ call.triggerKind = "Invoke"
    /\ Cardinality({i \in 1..Len(techniques) :
                        /\ techniques[i].revoked # "true"
                        /\ ContainsFolded(techniques[i].description.long, call.term)}) > 3
    /\ call.given = "undefined"

\* the references to ATT&CK of an object, in the order of the list
AttackReferences(item) ==
    SelectSeq(item.external_references, LAMBDA r : r.source_name = "mitre-attack")

\* C20 as stated: for every kind, the id and the url of a normalized entity
\* are those of the first reference of its object whose source_name is
\* 'mitre-attack', whatever references follow
C20_FirstReferenceWins ==
    call.fn = "init" =>
        \A k \in 1..Len(call.out) :
            \E n \in 1..Len(call.objects) :
                LET item == call.objects[n]
                IN  /\ item.type \in TypesOf(call.kind)
                    /\ item.name = call.out[k].name
                    /\ AttackReferences(item) # <<>>
                       => /\ call.out[k].id = AttackReferences(item)[1].external_id
                          /\ call.out[k].url = AttackReferences(item)[1].url

\* ------------------------------------------------------------------------
\* Properties of the normalization
\* ------------------------------------------------------------------------

\* the objects of a dataset that are of a kind, in the order of the dataset
ObjectsOf(kind, objects) == SelectSeq(objects, LAMBDA o : o.type \in TypesOf(kind))

\* an entity normalized from an object without a reference to ATT&CK
IsSentinel(entity) == entity.id = UnknownId /\ entity.url = UnknownUrl

\* one entity for each object of the kind, in the order of the dataset, those
\* without a reference to ATT&CK with the sentinel for id and url
OneEntityPerObject(kind, objects, entities) ==
    LET raw == ObjectsOf(kind, objects)
    IN  /\ Len(entities) = Len(raw)
        /\ \A k \in 1..Len(raw) :
            /\ entities[k].name = raw[k].name
            /\ AttackReferences(raw[k]) = <<>> => IsSentinel(entities[k])

\* an id in which an M is followed by four digits
IsMitigationId(id) ==
    \E off \in 0..(Len(id) - 5) :
        /\ id[off + 1] = "M"
        /\ \A d \in 2..5 : id[off + d] \in {"0", "1", "2", "3", "4", "5", "6", "7", "8",
                "9"}

\* C21 as stated: for every kind, an object without a reference to ATT&CK is
\* normalized into an entity with the sentinel for id and url, which is kept:
\* the collection has one entity for each object of the kind
C21_EveryKindKeepsSentinelEntities ==
    call.fn = "init" => OneEntityPerObject(call.kind, call.objects, call.out)

\* C21: techniques, tactics, groups and software keep one entity for each
\* object of the kind, the sentinel standing for the id and the url of an
\* object without a reference to ATT&CK; the mitigations keep the entities
\* whose id holds an M and four digits, in the order of the dataset, so that
\* a course of action without a reference to ATT&CK is left out
C21_SentinelEntitiesKept ==
    call.fn = "init" =>
        IF call.kind # "mitigations"
        THEN OneEntityPerObject(call.kind, call.objects, call.out)
        ELSE LET raw == ObjectsOf(call.kind, call.objects)
             IN  /\ \A k \in 1..Len(call.out) : IsMitigationId(call.out[k].id)
                 /\ \A k \in 1..Len(raw) :
                        (\E j \in 1..Len(call.out) : call.out[j].name = raw[k].name)
                        <=> ( /\ AttackReferences(raw[k]) # <<>>
                              /\ IsMitigationId(
                                    AttackReferences(raw[k])[Len(AttackReferences(raw[k]))].external_id) )
                 /\ \A j, k \in 1..Len(call.out) :
                        j < k => \E m, n \in 1..Len(raw) :
                                    /\ m < n
                                    /\ raw[m].name = call.out[j].name
                                    /\ raw[n].name = call.out[k].name

\* techniques are normalized from a dataset in which one has no reference to
\* ATT&CK, and it is in the collection with the sentinel
C21_Witness ==
    /\ call.fn = "init"
    /\ call.kind = "techniques"
    /\ \E k \in 1..Len(call.out) :
        /\ ObjectsOf(call.kind, call.objects)[k].external_references = <<>>
        /\ IsSentinel(call.out[k])
    /\ \E k \in 1..Len(call.out) : ~IsSentinel(call.out[k])

\* an id up to its first '.' or '/'
TruncatedId(id) ==
    LET at == {i \in 1..Len(id) : id[i] \in {".", "/"}}
    IN  IF at = {} THEN id ELSE SubSeq(id, 1, (CHOOSE i \in at : \A k \in at : i <= k) - 1)

\* a is the beginning of b, and shorter
ProperPrefix(a, b) == Len(a) < Len(b) /\ SubSeq(b, 1, Len(a)) = a

\* C22 as stated: after the normalization of the techniques, a technique
\* flagged as a subtechnique whose id, cut at its '.' or '/', is the id of a
\* technique of the collection has that technique as its parent; one whose
\* cut id is not in the collection has no parent and is in the collection
C22_ParentByTruncatedId ==
    (call.fn = "init" /\ call.kind = "techniques") =>
        /\ Len(call.out) = Len(ObjectsOf(call.kind, call.objects))
        /\ \A k \in 1..Len(call.out) :
            call.out[k].subtechnique = "true" =>
                IF \E j \in 1..Len(call.out) : call.out[j].id = TruncatedId(call.out[k].id)
                THEN /\ call.out[k].parent # 0
                     /\ call.out[call.out[k].parent].id = TruncatedId(call.out[k].id)
                ELSE call.out[k].parent = 0

\* C29 as stated: after the normalization of the techniques no technique is
\* its own parent, only a technique flagged as a subtechnique has a parent,
\* and the parent is another technique of the collection whose id is a
\* proper prefix of the id of the child
C29_ParentWellFounded ==
    (call.fn = "init" /\ call.kind = "techniques") =>
        \A k \in 1..Len(call.out) :
            call.out[k].parent # 0 =>
                /\ call.out[k].parent # k
                /\ call.out[k].subtechnique = "true"
                /\ call.out[k].parent \in 1..Len(call.out)
                /\ ProperPrefix(call.out[call.out[k].parent].id, call.out[k].id)

\* ------------------------------------------------------------------------
\* Deactivation, and what the downloads do when nobody waits for them
\* ------------------------------------------------------------------------

\* deactivate(context), once activate has run to its end: every subscription
\* is disposed of.  The requests and the writeFile calls in flight are not
\* among the subscriptions.
deactivate ==
    /\ js.activated
    /\ js.top = "activate" => js.pc = "done"
    /\ ~js.deactivated
    /\ js' = [js EXCEPT !.deactivated = TRUE, !.registered = FALSE, !.commands = {},
                        !.statusBar = [exists |-> FALSE, version |-> <<>>]]
    /\ UNCHANGED <<lookup, dirExists, entries, clock, writes, tags, late>>

SpecHost == Init /\ [][Next \/ deactivate]_vars

\* C24 as stated: once the operation around a download is given up, here by
\* the deactivation of the extension, the download does nothing more: no
\* writeFile is issued afterwards
C24_NoWriteAfterCancellation ==
    [][js.deactivated => Len(writes') <= Len(writes)]_vars

\* C26 as stated: a run of cacheData that returns a dataset has shown the
\* notice of a new version exactly when it found a newer version online and
\* returns the dataset of that version; a run that returns the cached dataset
\* has not shown it
C26_NoticeOnlyWhenReplaced ==
    (InCacheData /\ js.result.st = "map")
    => ( "newVersion" \in js.shown
         <=> (js.path = "update" /\ js.result.map.ver = js.onlineVersion) )

\* C27 as stated: when activate has returned the API, the status bar exists
\* and shows the version of the dataset that cacheData returned
C27_StatusBarShowsDatasetInUse ==
    (js.top = "activate" /\ js.pc = "done" /\ js.api = "api")
    => (js.statusBar.exists /\ js.statusBar.version = js.result.map.ver)

\* C28 as stated: a request that has timed out does nothing more when its
\* response arrives or it is closed: no writeFile is issued for it
C28_NoWriteAfterTimeout ==
    [][Len(late') < Len(late) => writes' = writes]_vars

\* ------------------------------------------------------------------------
\* The collections after they are built, and the panel of the search
\* ------------------------------------------------------------------------

\* the operations that look entities up
Lookups == {"provideHover", "provideCompletionItems", "resolveCompletionItem"}

\* C23: a hover, a completion or the resolving of a completion item leaves
\* every technique of the collection as it was before the call, so that the
\* same lookup again gives the same result.
C23_LookupsLeaveEntitiesAlone ==
    IF call.fn \in Lookups THEN techniques = call.techniques0 ELSE TRUE

\* the last thing done was the message `command` to the open panel
Received(command) ==
    /\ panel.open
    /\ IF call.fn = "onDidReceiveMessage" THEN call.command = command ELSE FALSE

\* the position is one of the results and the panel shows the result there
PanelShowsCurrent ==
    panel.open =>
        /\ Len(panel.results) >= 1
        /\ panel.currentPosition \in 0..(Len(panel.results) - 1)
        /\ panel.shown = panel.results[panel.currentPosition + 1]
        /\ panel.title = techniques[panel.shown].id \o <<":", " ">>
                            \o techniques[panel.shown].name

\* 'next' at the last result gives the first, 'previous' at the first the last
PanelWraps ==
    /\ Received("next") =>
          panel.currentPosition = (IF call.from = Len(panel.results) - 1
                                   THEN 0 ELSE call.from + 1)
    /\ Received("previous") =>
          panel.currentPosition = (IF call.from = 0
                                   THEN Len(panel.results) - 1 ELSE call.from - 1)

\* a 'previous' that follows a 'next' is back at the result before the 'next'
NextThenPrevious ==
    (Received("next") /\ call' # call /\ Received("previous")')
        => /\ panel'.currentPosition = call.from
           /\ panel'.results = panel.results
           /\ panel'.shown = panel.results[call.from + 1]

\* C30: in the panel over n >= 1 results the position stays in 0..n-1 under
\* any 'previous' and 'next', 'next' at the last result wraps to the first and
\* 'previous' at the first to the last, 'next' then 'previous' is back at the
\* same result, and the panel shows the result at the position.
C30_PanelNavigation ==
    /\ [](PanelShowsCurrent /\ PanelWraps)
    /\ [][NextThenPrevious]_vars

\* a 'previous' at the first of several results: the panel shows the last
C30_Witness ==
    /\ Received("previous")
    /\ Len(panel.results) >= 2
    /\ call.from = 0
    /\ panel.currentPosition = Len(panel.results) - 1
    /\ panel.shown = panel.results[Len(panel.results)]

\* ------------------------------------------------------------------------
\* The hover and completion providers and the settings
\* ------------------------------------------------------------------------

\* the registrations of one run
MaxRegistrations == 3

\* the file selectors tried
Selectors == {<<"markdown", "yaml">>, <<"markdown">>}

\* configuration.get('applicableFiles'): package.json gives the setting a
\* default, so that a value is always there
getApplicableFiles(s) == [defined |-> TRUE, value |-> s.applicableFiles]

\* register(filters, entities) of a kind: its hover and its completion provider
register(kind, filters, generation) ==
    << [kind |-> kind, type |-> "hover", filters |-> filters, generation |-> generation],
       [kind |-> kind, type |-> "completion", filters |-> filters,
        generation |-> generation] >>

\* currentProviders.disposeAll(): the providers of the five lists are disposed
disposeAll(p) ==
    [p EXCEPT !.registered = @ \ UNION {Range(p.current[kind]) : kind \in Kinds}]

\* currentProviders.pushAll(context.subscriptions): the five lists, one after
\* the other
pushAll(p) ==
    [p EXCEPT !.subscriptions =
        @ \o p.current.groups \o p.current.mitigations \o p.current.software
          \o p.current.tactics \o p.current.techniques]

\* registerFeatures that leaves the earlier providers registered
registerFeatures_undisposed(s, p) ==
    LET files == getApplicableFiles(s)
        g == p.generation + 1
        fresh == [kind \in Kinds |->
                    IF s[kind] THEN register(kind, files.value, g) ELSE p.current[kind]]
    IN  [p EXCEPT !.current = fresh,
                  !.registered = @ \cup UNION {Range(fresh[kind]) : kind \in Kinds},
                  !.generation = g]

\* registerFeatures(techniques, tactics, groups, software, mitigations)
registerFeatures(s, p) ==
    LET files == getApplicableFiles(s)
        d == disposeAll(p)
        g == p.generation + 1
        fresh == [kind \in Kinds |->
                    IF s[kind] THEN register(kind, files.value, g) ELSE d.current[kind]]
        made == UNION {IF s[kind] THEN Range(fresh[kind]) ELSE {} : kind \in Kinds}
    IN  IF files.defined
        THEN [d EXCEPT !.current = fresh, !.registered = @ \cup made, !.generation = g]
        ELSE p

\* activate, from registerFeatures to the configuration watcher
activate_registerFeatures ==
    /\ ~providers.watching
    /\ providers.generation = 0
    /\ providers' = [pushAll(registerFeatures(settings, providers)) EXCEPT
                        !.watching = TRUE]
    /\ call' = [fn |-> "activate"]
    /\ UNCHANGED <<cache, settings, panel, techniques, messages>>

\* the user switches a kind or changes the file selectors, before activation or while the
\* watcher is there to be told of it (e.affectsConfiguration(configSection))
onDidChangeConfiguration ==
    \E s \in {[settings EXCEPT ![kind] = ~@] : kind \in Kinds}
              \cup {[settings EXCEPT !.applicableFiles = files] :
                        files \in Selectors \ {settings.applicableFiles}} :
        /\ IF providers.watching THEN providers.generation < MaxRegistrations
                                 ELSE providers.generation = 0
        /\ settings' = s
        /\ providers' = IF providers.watching
                        THEN pushAll(registerFeatures(s, providers))
                        ELSE providers
        /\ call' = [fn |-> "onDidChangeConfiguration", affects |-> TRUE]
        /\ UNCHANGED <<cache, panel, techniques, messages>>

\* a setting of another extension changes: the watcher does nothing
onDidChangeConfiguration_elsewhere ==
    /\ providers.watching
    /\ call' = [fn |-> "onDidChangeConfiguration", affects |-> FALSE]
    /\ UNCHANGED <<cache, desk, techniques, messages>>

\* vscode.executeHoverProvider over an identifier of one of the kinds: each
\* hover provider registered for it answers
executeHoverProvider ==
    \E kind \in Kinds :
        /\ call' = [fn |-> "executeHoverProvider", kind |-> kind,
                    answers |-> Cardinality({d \in providers.registered :
                                    d.kind = kind /\ d.type = "hover"})]
        /\ UNCHANGED <<cache, desk, techniques, messages>>

\* deactivate: everything in context.subscriptions is disposed of
subscriptions_dispose ==
    /\ providers.watching
    /\ providers' = [providers EXCEPT !.registered = @ \ Range(providers.subscriptions),
                                      !.watching = FALSE]
    /\ call' = [fn |-> "deactivate"]
    /\ UNCHANGED <<cache, settings, panel, techniques, messages>>

NextProviders ==
    \/ activate_registerFeatures
    \/ onDidChangeConfiguration
    \/ onDidChangeConfiguration_elsewhere
    \/ executeHoverProvider
    \/ subscriptions_dispose

SpecProviders == InitLookup /\ [][NextProviders]_vars

\* the providers of a kind and a type that are registered
Active(kind, type) ==
    {d \in providers.registered : d.kind = kind /\ d.type = type}

\* C25: while the extension watches the configuration, a kind whose setting is
\* false has no registered provider and a hover over its identifiers gets no
\* answer; a kind whose setting is true has exactly one hover and exactly one
\* completion provider, registered for the current file selectors.
C25_ProvidersMatchSettings ==
    providers.watching =>
        /\ \A kind \in Kinds :
              IF settings[kind]
              THEN \A type \in {"hover", "completion"} :
                      /\ Cardinality(Active(kind, type)) = 1
                      /\ \A d \in Active(kind, type) : d.filters = settings.applicableFiles
              ELSE \A type \in {"hover", "completion"} : Active(kind, type) = {}
        /\ IF call.fn = "executeHoverProvider"
           THEN call.answers = (IF settings[call.kind] THEN 1 ELSE 0)
           ELSE TRUE

\* after a second registration: a hover over a kind switched off, whose list
\* still holds the disposed providers of before, and a kind switched on
C25_Witness ==
    /\ providers.watching
    /\ providers.generation >= 2
    /\ IF call.fn = "executeHoverProvider"
       THEN /\ ~settings[call.kind]
            /\ providers.current[call.kind] # <<>>
            /\ call.answers = 0
       ELSE FALSE
    /\ \E kind \in Kinds :
          /\ settings[kind]
          /\ \E d \in Active(kind, "hover") : d.generation = providers.generation

====
